---- MODULE Spec2Model ----
(***************************************************************************)
(* Model of the dynamodb-reactive subscription engine: the Reactive        *)
(* Handler (subscribe / unsubscribe / call, connection registration), the  *)
(* Dependency Extractor, the Change Processor in its two implementations   *)
(* (handlers/stream-handler.ts and handlers/lambda-handlers.ts) and the    *)
(* Patch Engine.                                                           *)
(*                                                                         *)
(* JavaScript strings are sequences of one-character strings, so that the  *)
(* '#'-join of dependency keys and the substring() of prefix keys are      *)
(* computed as the code computes them.                                     *)
(***************************************************************************)
EXTENDS Integers, Sequences, FiniteSets, TLC

\* ---------------------------------------------------------------- bounds
MaxTime == 1
MaxBatch == 1
MaxBatches == 1
MaxSubscribes == 3
MaxUnsubscribes == 1
\* tasks of one batch that meet a failure
MaxFailures == 1

\* ------------------------------------------------------- program constants
ttlSeconds == 3600
MsPerSecond == 1000

\* ------------------------------------------------------------ input sets
Conns == {"c1", "c2"}
SubIds == {"s1"}
Pairs == Conns \X SubIds

ItemIds == {<<"1">>, <<"2">>}
L1 == <<"L", "1">>
L2 == <<"L", "2">>
TaskLists == {L1, L2}

TodoTable == <<"T", "o", "d", "o">>
FieldNames == <<"id", "taskListId">>

\* ---------------------------------------------------------------- helpers
Range(s) == {s[i] : i \in DOMAIN s}

Hash == <<"#">>

PrefixTag == <<"p", "r", "e", "f", "i", "x", ":">>

FieldChars(f) ==
  IF f = "id" THEN <<"i", "d">>
  ELSE <<"t", "a", "s", "k", "L", "i", "s", "t", "I", "d">>

StartsWith(s, p) == Len(p) <= Len(s) /\ SubSeq(s, 1, Len(p)) = p

RECURSIVE Concat(_)
Concat(ss) == IF ss = <<>> THEN <<>> ELSE Head(ss) \o Concat(Tail(ss))

RECURSIVE SelectItems(_, _)
SelectItems(s, keep) ==
  IF s = <<>> THEN <<>>
  ELSE (IF keep[1] THEN <<Head(s)>> ELSE <<>>) \o
       SelectItems(Tail(s), Tail(keep))

\* JavaScript values whose type varies (procedure inputs)
JStr(s) == [t |-> "string", s |-> s, n |-> 0]
JNum(n) == [t |-> "number", s |-> <<>>, n |-> n]

\* ------------------------------------------------------ JavaScript values
\* A string is the sequence of its characters.  The other values are
\* sequences that begin with a word of several letters, which no string does.
undefined == <<"undefined">>
null == <<"null">>

Digits == <<"0", "1", "2", "3", "4", "5", "6", "7", "8", "9">>

Number(n) == <<"number", Digits[n + 1]>>

IsNullish(v) == v = undefined \/ v = null

IsNumber(v) == v # <<>> /\ v[1] = "number"

IsString(v) == v = <<>> \/ v[1] \notin {"undefined", "null", "number"}

NumberValue(v) == CHOOSE n \in 0..9 : Digits[n + 1] = v[2]

\* String(value)
String(v) ==
  IF v = undefined THEN <<"u", "n", "d", "e", "f", "i", "n", "e", "d">>
  ELSE IF v = null THEN <<"n", "u", "l", "l">>
  ELSE IF IsNumber(v) THEN Tail(v)
  ELSE v

\* a value in a boolean position: '' and the nullish values are falsy, and so
\* is the number 0
Truthy(v) == v # <<>> /\ ~IsNullish(v) /\ v # Number(0)

\* ------------------------------------------------------- filter builder
\* `field` is "" and `conditions` is <<>> where the node has no such property
createCondition(type, operator, field, value, value2) ==
  [type |-> type, operator |-> operator, field |-> field, value |-> value,
   value2 |-> value2, conditions |-> <<>>]

eq(field, value) == createCondition("comparison", "=", field, value, undefined)

ne(field, value) == createCondition("comparison", "<>", field, value, undefined)

gt(field, value) == createCondition("comparison", ">", field, value, undefined)

gte(field, value) == createCondition("comparison", ">=", field, value, undefined)

lt(field, value) == createCondition("comparison", "<", field, value, undefined)

lte(field, value) == createCondition("comparison", "<=", field, value, undefined)

between(field, lower, upper) ==
  createCondition("function", "BETWEEN", field, lower, upper)

beginsWith(field, prefix) ==
  createCondition("function", "begins_with", field, prefix, undefined)

contains(field, substring) ==
  createCondition("function", "contains", field, substring, undefined)

Logical(operator, conditions) ==
  [type |-> "logical", operator |-> operator, field |-> "",
   value |-> undefined, value2 |-> undefined, conditions |-> conditions]

and(conditions) == Logical("AND", conditions)

or(conditions) == Logical("OR", conditions)

not(condition) == Logical("NOT", <<condition>>)

\* ---------------------------------------------------- dependency extractor
\* extractFromCondition without the descent into logical nodes
extractFromConditionShallow(tableName, condition, indexName) ==
  IF condition.type = "comparison" /\ condition.operator = "="
     /\ condition.field # "" /\ condition.value # undefined
    THEN <<[tableName |-> tableName,
            fieldName |-> FieldChars(condition.field),
            fieldValue |-> String(condition.value),
            indexName |-> indexName]>>
  ELSE IF condition.type = "function" /\ condition.operator = "begins_with"
          /\ condition.field # "" /\ Truthy(condition.value)
    THEN <<[tableName |-> tableName,
            fieldName |-> FieldChars(condition.field),
            fieldValue |-> PrefixTag \o String(condition.value),
            indexName |-> indexName]>>
  ELSE <<>>

RECURSIVE extractFromCondition(_, _, _)
extractFromCondition(tableName, condition, indexName) ==
  IF condition.type = "comparison"
    THEN IF condition.operator = "=" /\ condition.field # ""
            /\ condition.value # undefined
           THEN <<[tableName |-> tableName,
                   fieldName |-> FieldChars(condition.field),
                   fieldValue |-> String(condition.value),
                   indexName |-> indexName]>>
           ELSE <<>>
  ELSE IF condition.type = "function"
    THEN IF condition.operator = "begins_with" /\ condition.field # ""
            /\ Truthy(condition.value)
           THEN <<[tableName |-> tableName,
                   fieldName |-> FieldChars(condition.field),
                   fieldValue |-> PrefixTag \o String(condition.value),
                   indexName |-> indexName]>>
           ELSE <<>>
  ELSE IF condition.type = "logical"
    THEN Concat([i \in DOMAIN condition.conditions |->
                   extractFromCondition(tableName, condition.conditions[i],
                                        indexName)])
  ELSE <<>>

extractDependencies(operation) ==
  Concat([i \in DOMAIN operation.filters |->
            extractFromCondition(operation.tableName, operation.filters[i],
                                 operation.indexName)])

createDependencyKey(dependency) ==
  dependency.tableName \o Hash \o dependency.fieldName \o Hash \o
  dependency.fieldValue

\* key.split('#'): the pieces between the '#' characters, at least one
RECURSIVE split(_)
split(key) ==
  IF key = <<>> THEN <<(<<>>)>>
  ELSE LET rest == split(Tail(key))
       IN  IF Head(key) = "#" THEN <<(<<>>)>> \o rest
           ELSE <<(<<Head(key)>> \o rest[1])>> \o Tail(rest)

\* parts.join('#')
RECURSIVE join(_)
join(parts) ==
  IF parts = <<>> THEN <<>>
  ELSE IF Len(parts) = 1 THEN parts[1]
  ELSE parts[1] \o Hash \o join(Tail(parts))

\* parseDependencyKey that takes the third part alone as the value
parseDependencyKeyThreeParts(key) ==
  LET parts == split(key)
  IN  IF Len(parts) < 3 THEN null
      ELSE [tableName |-> parts[1], fieldName |-> parts[2],
            fieldValue |-> parts[3], indexName |-> undefined]

\* the returned object has no indexName property
parseDependencyKey(key) ==
  LET parts == split(key)
  IN  IF Len(parts) < 3 THEN null
      ELSE [tableName |-> parts[1], fieldName |-> parts[2],
            fieldValue |-> join(SubSeq(parts, 3, Len(parts))),
            indexName |-> undefined]

\* FieldKeys without the prefix key of the whole value
FieldKeysProperPrefixes(tableName, fieldName, fieldValue) ==
  IF IsNullish(fieldValue) THEN <<>>
  ELSE <<tableName \o Hash \o FieldChars(fieldName) \o Hash \o
         String(fieldValue)>> \o
       (IF IsString(fieldValue)
          THEN [i \in 1..(Len(fieldValue) - 1) |->
                  tableName \o Hash \o FieldChars(fieldName) \o Hash \o
                  PrefixTag \o SubSeq(fieldValue, 1, i)]
          ELSE <<>>)

\* the keys that extractAffectedKeys pushes for one entry of the item
FieldKeys(tableName, fieldName, fieldValue) ==
  IF IsNullish(fieldValue) THEN <<>>
  ELSE <<tableName \o Hash \o FieldChars(fieldName) \o Hash \o
         String(fieldValue)>> \o
       (IF IsString(fieldValue)
          THEN [i \in 1..Len(fieldValue) |->
                  tableName \o Hash \o FieldChars(fieldName) \o Hash \o
                  PrefixTag \o SubSeq(fieldValue, 1, i)]
          ELSE <<>>)

extractAffectedKeys(tableName, item) ==
  Concat([i \in DOMAIN FieldNames |->
            FieldKeys(tableName, FieldNames[i], item[FieldNames[i]])])

RECURSIVE normalizeFilter(_)
normalizeFilter(filter) ==
  IF filter.type = "comparison"
    THEN [filter EXCEPT !.operator =
            IF @ = "=" THEN "eq" ELSE IF @ = "<>" THEN "ne"
            ELSE IF @ = ">" THEN "gt" ELSE IF @ = ">=" THEN "gte"
            ELSE IF @ = "<" THEN "lt" ELSE IF @ = "<=" THEN "lte" ELSE @]
  ELSE IF filter.type = "function"
    THEN [filter EXCEPT !.operator =
            IF @ = "begins_with" THEN "beginsWith"
            ELSE IF @ = "BETWEEN" THEN "between" ELSE @]
  ELSE IF filter.type = "logical" /\ filter.conditions # <<>>
    THEN [filter EXCEPT
            !.operator = IF @ = "AND" THEN "and" ELSE IF @ = "OR" THEN "or"
                         ELSE IF @ = "NOT" THEN "not" ELSE @,
            !.conditions = [i \in DOMAIN @ |-> normalizeFilter(@[i])]]
  ELSE filter

operationToQueryMetadata(operation) ==
  [tableName |-> operation.tableName,
   filterConditions |->
     [i \in DOMAIN operation.filters |-> normalizeFilter(operation.filters[i])],
   sortOrder |-> operation.sortOrder]

\* DependencyTracker: `operations` is the list tracked during one execution
getDependencyKeys(operations) ==
  Concat([i \in DOMAIN operations |->
     LET deps == extractDependencies(operations[i])
     IN  [j \in DOMAIN deps |-> createDependencyKey(deps[j])]])

\* getQueryMetadata returns null (here: the empty sequence) when nothing was
\* tracked, and otherwise a one-element sequence holding the metadata of the
\* first operation.
getQueryMetadata(operations) ==
  IF operations = <<>> THEN <<>>
  ELSE <<operationToQueryMetadata(operations[1])>>

\* ------------------------------------------------------------- user table
\* The Todo table: store[id] is the taskListId of the item, or Absent.
Absent == <<>>

Item(id, list) == [id |-> id, taskListId |-> list]

\* the contents of the table when the engine starts
InitialStores ==
  {[i \in ItemIds |-> Absent],
   [i \in ItemIds |-> IF i = <<"1">> THEN L1 ELSE Absent],
   [i \in ItemIds |-> L1],
   [i \in ItemIds |-> IF i = <<"1">> THEN L1 ELSE L2]}

TableItems(st) ==
  SelectItems(<<Item(<<"1">>, st[<<"1">>]), Item(<<"2">>, st[<<"2">>])>>,
              <<st[<<"1">>] # Absent, st[<<"2">>] # Absent>>)

\* ---------------------------------------------------------------- PartiQL
\* A WHERE clause is kept as its syntax tree; Thrown marks a builder that
\* threw, EmptyClause the '' that buildConditionClause returns.  A BETWEEN
\* clause keeps its lower operand in `value` and its upper operand in `sub`.
Clause(kind, op, field, value, sub) ==
  [kind |-> kind, op |-> op, field |-> field, value |-> value, sub |-> sub]

Thrown == Clause("throw", "", "", <<>>, <<>>)
EmptyClause == Clause("empty", "", "", <<>>, <<>>)

RECURSIVE conditionToPartiQL(_)
conditionToPartiQL(condition) ==
  IF condition.type = "comparison"
    THEN Clause("cmp", condition.operator, condition.field, condition.value, <<>>)
  ELSE IF condition.type = "function"
    THEN IF condition.operator = "BETWEEN"
           THEN Clause("between", "", condition.field, condition.value,
                       <<condition.value2>>)
         ELSE IF condition.operator = "begins_with"
           THEN Clause("begins_with", "", condition.field, condition.value, <<>>)
         ELSE IF condition.operator = "contains"
           THEN Clause("contains", "", condition.field, condition.value, <<>>)
         ELSE Thrown
  ELSE IF condition.type = "logical"
    THEN IF condition.conditions = <<>> THEN Thrown
         ELSE IF condition.operator = "NOT"
           THEN Clause("not", "", "", <<>>,
                       <<conditionToPartiQL(condition.conditions[1])>>)
         ELSE Clause("join", condition.operator, "", <<>>,
                     [i \in DOMAIN condition.conditions |->
                        conditionToPartiQL(condition.conditions[i])])
  ELSE Thrown

buildSelectStatement(operation) ==
  [table |-> operation.tableName,
   where |-> [i \in DOMAIN operation.filters |->
                conditionToPartiQL(operation.filters[i])]]

\* escapeValue: a string becomes a quoted literal with every quote doubled
Quote == "'"

RECURSIVE DoubleQuotes(_)
DoubleQuotes(s) ==
  IF s = <<>> THEN <<>>
  ELSE (IF Head(s) = Quote THEN <<Quote, Quote>> ELSE <<Head(s)>>) \o
       DoubleQuotes(Tail(s))

NullLiteral == <<"NULL">>

\* a number is rendered as it is; the model keeps it as the number
escapeValue(value) ==
  IF IsNullish(value) THEN NullLiteral
  ELSE IF IsNumber(value) THEN value
  ELSE <<Quote>> \o DoubleQuotes(value) \o <<Quote>>

\* what the statement parser reads back from a quoted literal
RECURSIVE UndoubleQuotes(_)
UndoubleQuotes(s) ==
  IF s = <<>> THEN <<>>
  ELSE IF Len(s) >= 2 /\ s[1] = Quote /\ s[2] = Quote
    THEN <<Quote>> \o UndoubleQuotes(SubSeq(s, 3, Len(s)))
  ELSE <<Head(s)>> \o UndoubleQuotes(Tail(s))

LiteralValue(lit) ==
  IF lit = NullLiteral THEN null
  ELSE IF IsNumber(lit) THEN lit
  ELSE UndoubleQuotes(SubSeq(lit, 2, Len(lit) - 1))

RECURSIVE NonEmptyClauses(_)
NonEmptyClauses(cs) ==
  IF cs = <<>> THEN <<>>
  ELSE (IF Head(cs) = EmptyClause THEN <<>> ELSE <<Head(cs)>>) \o
       NonEmptyClauses(Tail(cs))

RECURSIVE buildConditionClause(_)
buildConditionClause(condition) ==
  IF condition.type = "comparison" /\ condition.field # ""
    THEN IF condition.operator = "eq"
           THEN Clause("lit", "=", condition.field,
                       escapeValue(condition.value), <<>>)
         ELSE IF condition.operator = "ne"
           THEN Clause("lit", "<>", condition.field,
                       escapeValue(condition.value), <<>>)
         ELSE IF condition.operator = "gt"
           THEN Clause("lit", ">", condition.field,
                       escapeValue(condition.value), <<>>)
         ELSE IF condition.operator = "gte"
           THEN Clause("lit", ">=", condition.field,
                       escapeValue(condition.value), <<>>)
         ELSE IF condition.operator = "lt"
           THEN Clause("lit", "<", condition.field,
                       escapeValue(condition.value), <<>>)
         ELSE IF condition.operator = "lte"
           THEN Clause("lit", "<=", condition.field,
                       escapeValue(condition.value), <<>>)
         ELSE IF condition.operator = "between"
           THEN Clause("between_lit", "", condition.field,
                       escapeValue(condition.value),
                       <<escapeValue(condition.value2)>>)
         ELSE EmptyClause
  ELSE IF condition.type = "function" /\ condition.field # ""
    THEN IF condition.operator = "beginsWith"
           THEN Clause("begins_with_lit", "", condition.field,
                       escapeValue(condition.value), <<>>)
         ELSE IF condition.operator = "contains"
           THEN Clause("contains_lit", "", condition.field,
                       escapeValue(condition.value), <<>>)
         ELSE EmptyClause
  ELSE IF condition.type = "logical" /\ condition.conditions # <<>>
    THEN LET subclauses ==
               NonEmptyClauses([i \in DOMAIN condition.conditions |->
                                  buildConditionClause(condition.conditions[i])])
         IN  IF subclauses = <<>> THEN EmptyClause
             ELSE IF condition.operator = "and"
               THEN Clause("join", "AND", "", <<>>, subclauses)
             ELSE IF condition.operator = "or"
               THEN Clause("join", "OR", "", <<>>, subclauses)
             ELSE IF condition.operator = "not"
               THEN Clause("not", "", "", <<>>, <<subclauses[1]>>)
             ELSE EmptyClause
  ELSE EmptyClause

buildWhereClause(conditions) ==
  NonEmptyClauses([i \in DOMAIN conditions |->
                     buildConditionClause(conditions[i])])

\* The store's evaluation of a WHERE clause on one item
RECURSIVE Contains(_, _)
Contains(s, sub) ==
  IF Len(sub) > Len(s) THEN FALSE
  ELSE StartsWith(s, sub) \/ (s # <<>> /\ Contains(Tail(s), sub))

\* The store orders strings by their UTF-8 bytes; Ascii lists the characters
\* of the model in that order.
Ascii == <<"#", "'", "0", "1", "2", "3", "4", "5", "6", "7", "8", "9", ":",
           "I", "L", "T", "a", "b", "d", "e", "f", "i", "k", "l", "o", "p",
           "r", "s", "t", "x">>

Code(c) == CHOOSE i \in DOMAIN Ascii : Ascii[i] = c

RECURSIVE BytesLess(_, _)
BytesLess(a, b) ==
  IF b = <<>> THEN FALSE
  ELSE IF a = <<>> THEN TRUE
  ELSE IF Head(a) = Head(b) THEN BytesLess(Tail(a), Tail(b))
  ELSE Code(Head(a)) < Code(Head(b))

\* a < b in the store: operands of the same type only
StoreLess(a, b) ==
  IF IsString(a) /\ IsString(b) THEN BytesLess(a, b)
  ELSE IF IsNumber(a) /\ IsNumber(b) THEN NumberValue(a) < NumberValue(b)
  ELSE FALSE

StoreLessOrEqual(a, b) == StoreLess(a, b) \/ a = b

RECURSIVE EvalClause(_, _)
EvalClause(clause, item) ==
  LET literal == clause.kind \in {"lit", "begins_with_lit", "contains_lit",
                                  "between_lit"}
      operand == IF literal THEN LiteralValue(clause.value) ELSE clause.value
      v == item[clause.field]
  IN
  IF clause.kind \in {"cmp", "lit"}
    THEN IF clause.op = "=" THEN v = operand
         ELSE IF clause.op = "<>" THEN v # operand
         ELSE IF clause.op = ">" THEN StoreLess(operand, v)
         ELSE IF clause.op = ">=" THEN StoreLessOrEqual(operand, v)
         ELSE IF clause.op = "<" THEN StoreLess(v, operand)
         ELSE IF clause.op = "<=" THEN StoreLessOrEqual(v, operand)
         ELSE FALSE
  ELSE IF clause.kind \in {"between", "between_lit"}
    THEN LET upper == IF literal THEN LiteralValue(clause.sub[1])
                      ELSE clause.sub[1]
         IN  StoreLessOrEqual(operand, v) /\ StoreLessOrEqual(v, upper)
  ELSE IF clause.kind \in {"begins_with", "begins_with_lit"}
    THEN IsString(v) /\ IsString(operand) /\ StartsWith(v, operand)
  ELSE IF clause.kind \in {"contains", "contains_lit"}
    THEN IsString(v) /\ IsString(operand) /\ Contains(v, operand)
  ELSE IF clause.kind = "not"
    THEN ~EvalClause(clause.sub[1], item)
  ELSE IF clause.kind = "join"
    THEN IF clause.op = "OR"
           THEN \E i \in DOMAIN clause.sub : EvalClause(clause.sub[i], item)
           ELSE \A i \in DOMAIN clause.sub : EvalClause(clause.sub[i], item)
  ELSE FALSE

\* ExecuteStatement on the store: fails on a throwing builder or on a table
\* that does not exist, and otherwise returns the matching items in key order.
ExecuteStatement(table, where, st) ==
  IF table # TodoTable \/ (\E i \in DOMAIN where : where[i] = Thrown)
    THEN [ok |-> FALSE, items |-> <<>>]
  ELSE LET items == TableItems(st)
       IN  [ok |-> TRUE,
            items |-> SelectItems(items,
                        [i \in DOMAIN items |->
                           \A j \in DOMAIN where : EvalClause(where[j], items[i])])]

\* -------------------------------------------------------- filter evaluator
\* localeCompare orders punctuation before digits before letters, and a
\* lower-case letter before its upper-case form; Locale lists the characters
\* of the model in that order.
Locale == <<":", "'", "#", "0", "1", "2", "3", "4", "5", "6", "7", "8", "9",
            "a", "b", "d", "e", "f", "i", "I", "k", "l", "L", "o", "p", "r",
            "s", "t", "T", "x">>

Rank(c) == CHOOSE i \in DOMAIN Locale : Locale[i] = c

\* a.localeCompare(b), as -1, 0 or 1
RECURSIVE localeCompare(_, _)
localeCompare(a, b) ==
  IF a = <<>> /\ b = <<>> THEN 0
  ELSE IF a = <<>> THEN -1
  ELSE IF b = <<>> THEN 1
  ELSE IF Head(a) = Head(b) THEN localeCompare(Tail(a), Tail(b))
  ELSE IF Rank(Head(a)) < Rank(Head(b)) THEN -1 ELSE 1

\* the values of the model are strings, numbers, null and undefined, so the
\* branch for booleans is never taken
compareValues(a, b) ==
  IF IsNullish(a) THEN (IF IsNullish(b) THEN 0 ELSE -1)
  ELSE IF IsNullish(b) THEN 1
  ELSE IF IsNumber(a) /\ IsNumber(b) THEN NumberValue(a) - NumberValue(b)
  ELSE IF IsString(a) /\ IsString(b) THEN localeCompare(a, b)
  ELSE localeCompare(String(a), String(b))

\* the fields of the model have no dots
getFieldValue(record, field) == record[field]

evaluateComparison(filter, record) ==
  IF filter.field = "" \/ filter.operator = "" THEN FALSE
  ELSE LET fieldValue == getFieldValue(record, filter.field)
           operator == filter.operator
       IN  IF operator = "eq" THEN fieldValue = filter.value
           ELSE IF operator = "ne" THEN fieldValue # filter.value
           ELSE IF operator = "gt"
             THEN compareValues(fieldValue, filter.value) > 0
           ELSE IF operator = "gte"
             THEN compareValues(fieldValue, filter.value) >= 0
           ELSE IF operator = "lt"
             THEN compareValues(fieldValue, filter.value) < 0
           ELSE IF operator = "lte"
             THEN compareValues(fieldValue, filter.value) <= 0
           ELSE IF operator = "between"
             THEN /\ compareValues(fieldValue, filter.value) >= 0
                  /\ compareValues(fieldValue, filter.value2) <= 0
           ELSE FALSE

evaluateFunction(filter, record) ==
  IF filter.field = "" \/ filter.operator = "" THEN FALSE
  ELSE LET fieldValue == getFieldValue(record, filter.field)
       IN  IF filter.operator = "beginsWith"
             THEN IsString(fieldValue) /\ IsString(filter.value)
                  /\ StartsWith(fieldValue, filter.value)
           ELSE IF filter.operator = "contains"
             THEN IsString(fieldValue) /\ IsString(filter.value)
                  /\ Contains(fieldValue, filter.value)
           ELSE FALSE

RECURSIVE evaluateFilter(_, _)
RECURSIVE evaluateLogical(_, _)

\* the `conditions` of a logical node are a list, as the builder and the
\* normalisation make them
evaluateLogical(filter, record) ==
  IF filter.operator = "" THEN FALSE
  ELSE IF filter.operator = "and"
    THEN \A i \in DOMAIN filter.conditions :
           evaluateFilter(filter.conditions[i], record)
  ELSE IF filter.operator = "or"
    THEN \E i \in DOMAIN filter.conditions :
           evaluateFilter(filter.conditions[i], record)
  ELSE IF filter.operator = "not"
    THEN /\ Len(filter.conditions) > 0
         /\ ~evaluateFilter(filter.conditions[1], record)
  ELSE FALSE

evaluateFilter(filter, record) ==
  IF filter.type = "comparison" THEN evaluateComparison(filter, record)
  ELSE IF filter.type = "logical" THEN evaluateLogical(filter, record)
  ELSE IF filter.type = "function" THEN evaluateFunction(filter, record)
  ELSE FALSE

\* evaluateFilters that matches as soon as one filter matches
evaluateFiltersAny(filters, record) ==
  \E i \in DOMAIN filters : evaluateFilter(filters[i], record)

evaluateFilters(filters, record) ==
  IF Len(filters) = 0 THEN TRUE
  ELSE \A i \in DOMAIN filters : evaluateFilter(filters[i], record)

\* ----------------------------------------------------------- patch engine
\* A document is a list of items (the shape of lastResult).  A JSON pointer
\* /index or /index/field is kept as its 0-based index and its field ("" when
\* the pointer ends at the array element).
NoItem == Item(<<>>, <<>>)

Patch(op, index, field, value, item) ==
  [op |-> op, index |-> index, field |-> field, value |-> value, item |-> item]

\* fast-json-patch _generate on two objects with the same keys: old keys are
\* visited from the last to the first
GenerateObject(mirror, obj, index) ==
  (IF mirror.taskListId # obj.taskListId
     THEN <<Patch("replace", index, "taskListId", obj.taskListId, NoItem)>>
     ELSE <<>>) \o
  (IF mirror.id # obj.id
     THEN <<Patch("replace", index, "id", obj.id, NoItem)>>
     ELSE <<>>)

\* the first loop of _generate on two arrays, old keys t, t-1, .., 1
RECURSIVE GenerateOldKeys(_, _, _)
GenerateOldKeys(mirror, obj, t) ==
  IF t = 0 THEN <<>>
  ELSE (IF t <= Len(obj)
          THEN GenerateObject(mirror[t], obj[t], t - 1)
          ELSE <<Patch("remove", t - 1, "", <<>>, NoItem)>>) \o
       GenerateOldKeys(mirror, obj, t - 1)

compare(mirror, obj) ==
  LET first == GenerateOldKeys(mirror, obj, Len(mirror))
      deleted == Len(obj) < Len(mirror)
  IN  IF ~deleted /\ Len(obj) = Len(mirror) THEN first
      ELSE first \o
           [k \in 1..(IF Len(obj) > Len(mirror) THEN Len(obj) - Len(mirror) ELSE 0)
              |-> Patch("add", Len(mirror) + k - 1, "", <<>>, obj[Len(mirror) + k])]

\* compare called with its arguments exchanged
generatePatchesSwapped(oldValue, newValue) == compare(newValue, oldValue)

generatePatches(oldValue, newValue) == compare(oldValue, newValue)

\* a change check that always reports a change
hasChangesAlways(oldValue, newValue) == TRUE

hasChanges(oldValue, newValue) == Len(generatePatches(oldValue, newValue)) > 0

\* fast-json-patch applyOperation with validation, on a list of items
applyOperation(doc, patch) ==
  LET i == patch.index + 1 IN
  IF patch.op = "replace"
    THEN IF i \in DOMAIN doc /\ patch.field \in {"id", "taskListId"}
           THEN [ok |-> TRUE,
                 doc |-> [doc EXCEPT ![i] = [@ EXCEPT ![patch.field] = patch.value]]]
           ELSE [ok |-> FALSE, doc |-> doc]
  ELSE IF patch.op = "remove"
    THEN IF i \in DOMAIN doc /\ patch.field = ""
           THEN [ok |-> TRUE,
                 doc |-> SubSeq(doc, 1, i - 1) \o SubSeq(doc, i + 1, Len(doc))]
           ELSE [ok |-> FALSE, doc |-> doc]
  ELSE IF patch.op = "add"
    THEN IF i <= Len(doc) + 1 /\ patch.field = ""
           THEN [ok |-> TRUE,
                 doc |-> SubSeq(doc, 1, i - 1) \o <<patch.item>> \o
                         SubSeq(doc, i, Len(doc))]
           ELSE [ok |-> FALSE, doc |-> doc]
  ELSE [ok |-> FALSE, doc |-> doc]

RECURSIVE applyPatches(_, _)
applyPatches(document, patches) ==
  IF patches = <<>> THEN [ok |-> TRUE, doc |-> document]
  ELSE LET r == applyOperation(document, Head(patches))
       IN  IF r.ok THEN applyPatches(r.doc, Tail(patches))
           ELSE [ok |-> FALSE, doc |-> document]

\* ------------------------------------------------------------------ router
\* The router of the documented example: todos.list subscribes to the items
\* of one task list, todos.byPrefix to the items whose task list begins with
\* the input, todos.broken has a resolver that throws, todos.listWithFirst
\* runs the query of todos.list and then a second query for the item "1",
\* and returns the items of the first.  Every procedure declares a string
\* input schema.
Paths == {"todos.list", "todos.byPrefix", "todos.broken", "todos.listWithFirst"}
\* todos.first returns the first item of one task list, not a list, and throws
\* when the task list has no item
SinglePaths == {"todos.first"}
RequestPaths == {"todos.list", "todos.byPrefix", "todos.broken", "todos.missing"}
RequestInputs == {JStr(L1), JNum(7)}

getProcedure(path) ==
  IF path \in Paths \cup SinglePaths THEN <<path>> ELSE <<>>

\* executeQuery of the database context: track the operation, build the
\* statement and run it
executeQuery(operation, st) ==
  LET statement == buildSelectStatement(operation)
  IN  ExecuteStatement(statement.table, statement.where, st)

TrackedOperation(filters) ==
  [tableName |-> TodoTable, filters |-> filters, indexName |-> undefined,
   sortOrder |-> "asc"]

\* isArray says whether the value the resolver returned is an array
\* (Array.isArray)
Failure(message) ==
  [ok |-> FALSE, message |-> message, result |-> <<>>, isArray |-> TRUE,
   operations |-> <<>>]

resolver(path, input, st) ==
  IF path = "todos.broken" THEN Failure("resolver failed")
  ELSE IF path = "todos.listWithFirst"
    THEN LET first == TrackedOperation(<<eq("taskListId", input)>>)
             second == TrackedOperation(<<eq("id", <<"1">>)>>)
             r1 == executeQuery(first, st)
             r2 == executeQuery(second, st)
         IN  IF r1.ok /\ r2.ok
               THEN [ok |-> TRUE, message |-> "", result |-> r1.items,
                     isArray |-> TRUE, operations |-> <<first, second>>]
               ELSE Failure("statement failed")
  ELSE IF path = "todos.first"
    THEN LET operation == TrackedOperation(<<eq("taskListId", input)>>)
             r == executeQuery(operation, st)
         IN  IF ~r.ok THEN Failure("statement failed")
             ELSE IF r.items = <<>> THEN Failure("not found")
             ELSE [ok |-> TRUE, message |-> "", result |-> r.items[1],
                   isArray |-> FALSE, operations |-> <<operation>>]
  ELSE LET operation ==
             IF path = "todos.list"
               THEN TrackedOperation(<<eq("taskListId", input)>>)
               ELSE TrackedOperation(<<beginsWith("taskListId", input)>>)
           r == executeQuery(operation, st)
       IN  IF r.ok
             THEN [ok |-> TRUE, message |-> "", result |-> r.items,
                   isArray |-> TRUE, operations |-> <<operation>>]
             ELSE Failure("statement failed")

\* executeProcedure without the safeParse of the input
executeProcedureUnchecked(procedure, st, rawInput) ==
  resolver(procedure, rawInput.s, st)

executeProcedure(procedure, st, rawInput) ==
  IF rawInput.t # "string" THEN Failure("Invalid input")
  ELSE resolver(procedure, rawInput.s, st)

execute(path, st, input) ==
  IF getProcedure(path) = <<>> THEN Failure("Procedure not found")
  ELSE executeProcedure(getProcedure(path)[1], st, input)

\* ------------------------------------------------------------------- state
VARIABLES
  connections,   \* Connection rows, by connectionId
  queries,       \* Subscription rows, by <<connectionId, subscriptionId>>
  dependencies,  \* DependencyIndexEntry rows, by <<pk, connectionId, subscriptionId>>
  store,         \* the Todo table
  pending,       \* change records of the stream not yet handed to a batch
  now,           \* Date.now()
  response,      \* the response returned by the step that led here, if any
  batch,         \* what the change batch that led here selected, wrote, pushed
  unsubscribed,  \* pairs whose last completed request was an unsubscribe
  used,          \* number of requests and batches handled so far
  client,        \* one ReactiveClient with its WebSocketManager, its sockets
                 \* and its timers
  applied,       \* the library function called on its own, with its
                 \* arguments and what it returned
  tasks          \* the processSubscription calls of the handler invocations
                 \* that run side by side, each with what it has read so far

serverVars == <<connections, queries, dependencies, store, pending, now,
                response, batch, unsubscribed, used>>

vars == <<connections, queries, dependencies, store, pending, now, response,
          batch, unsubscribed, used, client, applied, tasks>>

\* ---------------------------------------------------------------- records
Response(type, subscriptionId, message, data, success) ==
  [type |-> type, subscriptionId |-> subscriptionId, message |-> message,
   data |-> data, success |-> success]

NoResponse == Response("none", "", "", <<>>, FALSE)

NoBatch ==
  [op |-> "none", affected |-> {}, fail |-> [p \in Pairs |-> "none"], written |-> {},
   pushed |-> <<>>, raised |-> FALSE]

ttlAt(t) == (t \div MsPerSecond) + ttlSeconds

Put(table, key, item) ==
  [k \in DOMAIN table \cup {key} |-> IF k = key THEN item ELSE table[k]]

Delete(table, key) == [k \in DOMAIN table \ {key} |-> table[k]]

RECURSIVE PutAll(_, _, _)
PutAll(table, keys, item) ==
  IF keys = <<>> THEN table
  ELSE PutAll(Put(table, Head(keys), item), Tail(keys), item)

RECURSIVE DeleteAll(_, _)
DeleteAll(table, keys) ==
  IF keys = <<>> THEN table
  ELSE DeleteAll(Delete(table, Head(keys)), Tail(keys))

\* ------------------------------------------------------------ client state
\* the retry budget the client is configured with
MaxReconnectAttempts == 2
\* sockets one client may create
MaxSockets == 2
\* connect() calls that may be waiting for buildUrl at once
MaxPendingConnects == 1
\* messages the application may hand to send()
MaxMessages == 2

\* new ReactiveClient(config): the fields of the client and of its
\* WebSocketManager after construction, with the sockets, timers and
\* suspended connect() calls of the page, the messages handed to the sockets,
\* the callbacks run by the last step, and whether the last call of the
\* application among connect() and disconnect() was disconnect()
ReactiveClient(autoReconnect) ==
  [autoReconnect |-> autoReconnect,
   maxReconnectAttempts |-> MaxReconnectAttempts,
   state |-> "disconnected",
   connectionState |-> "disconnected",
   ws |-> 0,
   reconnectAttempts |-> 0,
   reconnectTimer |-> 0,
   messageQueue |-> <<>>,
   subscriptions |-> <<>>,
   pendingCalls |-> {},
   sockets |-> <<>>,
   opened |-> 0,
   connects |-> 0,
   timers |-> {},
   callTimers |-> {},
   transmitted |-> <<>>,
   generated |-> {},
   settled |-> <<>>,
   stopped |-> FALSE,
   events |-> <<>>]

\* no handler invocation is under way
NoTasks == <<>>

\* no library function has been called on its own
NotApplied == [fn |-> "", input |-> <<>>, output |-> <<>>]

Init ==
  /\ connections = <<>>
  /\ queries = <<>>
  /\ dependencies = <<>>
  /\ store \in InitialStores
  /\ pending = <<>>
  /\ now = 0
  /\ response = NoResponse
  /\ batch = NoBatch
  /\ unsubscribed = {}
  /\ used = [subscribe |-> 0, unsubscribe |-> 0, batch |-> 0]
  /\ client = ReactiveClient(TRUE)
  /\ applied = NotApplied
  /\ tasks = NoTasks

\* ------------------------------------------------------- reactive handler
EmptyMetadata == [tableName |-> <<>>, filterConditions |-> <<>>, sortOrder |-> "asc"]

\* the Subscription row that handleSubscribe stores
QueryEntry(connectionId, subscriptionId, r) ==
  LET queryMetadata == getQueryMetadata(r.operations)
  IN  [connectionId |-> connectionId, subscriptionId |-> subscriptionId,
       queryMetadata |-> IF queryMetadata = <<>> THEN EmptyMetadata
                         ELSE queryMetadata[1],
       lastResult |-> IF r.isArray THEN r.result ELSE <<r.result>>,
       dependencies |-> getDependencyKeys(r.operations),
       createdAt |-> now, updatedAt |-> now, ttl |-> ttlAt(now)]

\* an index entry whose expiry is computed from the milliseconds
DependencyEntryMs(connectionId, subscriptionId) ==
  [connectionId |-> connectionId, subscriptionId |-> subscriptionId,
   ttl |-> now + ttlSeconds]

\* the index entry that handleSubscribe stores for each dependency key
DependencyEntry(connectionId, subscriptionId) ==
  [connectionId |-> connectionId, subscriptionId |-> subscriptionId,
   ttl |-> ttlAt(now)]

\* handleRequest with a subscribe request (handleSubscribe); an error thrown
\* by the router reaches the catch of handleRequest before anything is written.
\* What the client does with the response is left to the step that uses this.
Subscribed(connectionId, subscriptionId, path, input) ==
  LET r == execute(path, store, input)
      dependencyKeys == getDependencyKeys(r.operations)
  IN
  /\ used.subscribe < MaxSubscribes
  /\ used' = [used EXCEPT !.subscribe = @ + 1]
  /\ IF r.ok
       THEN /\ queries' = Put(queries, <<connectionId, subscriptionId>>,
                              QueryEntry(connectionId, subscriptionId, r))
            /\ dependencies' =
                 PutAll(dependencies,
                        [i \in DOMAIN dependencyKeys |->
                           <<dependencyKeys[i], connectionId, subscriptionId>>],
                        DependencyEntry(connectionId, subscriptionId))
            /\ unsubscribed' = unsubscribed \ {<<connectionId, subscriptionId>>}
            /\ response' = Response("snapshot", subscriptionId, "", r.result, FALSE)
       ELSE /\ UNCHANGED <<queries, dependencies, unsubscribed>>
            /\ response' = Response("error", subscriptionId, r.message, <<>>, FALSE)
  /\ batch' = NoBatch
  /\ UNCHANGED <<applied, tasks, connections, store, pending, now>>

\* a subscribe request whose response no modelled client receives
handleSubscribe(connectionId, subscriptionId, path, input) ==
  /\ Subscribed(connectionId, subscriptionId, path, input)
  /\ UNCHANGED client

\* the index entries an unsubscribe leaves behind: those listed on the
\* Subscription row are deleted
UnsubscribeDependencies(connectionId, subscriptionId) ==
  IF <<connectionId, subscriptionId>> \in DOMAIN queries
    THEN LET keys == queries[<<connectionId, subscriptionId>>].dependencies
         IN  DeleteAll(dependencies,
                       [i \in DOMAIN keys |->
                          <<keys[i], connectionId, subscriptionId>>])
    ELSE dependencies

\* handleRequest with an unsubscribe request (handleUnsubscribe)
handleUnsubscribe(connectionId, subscriptionId) ==
  /\ used.unsubscribe < MaxUnsubscribes
  /\ used' = [used EXCEPT !.unsubscribe = @ + 1]
  /\ dependencies' = UnsubscribeDependencies(connectionId, subscriptionId)
  /\ queries' = Delete(queries, <<connectionId, subscriptionId>>)
  /\ unsubscribed' = unsubscribed \cup {<<connectionId, subscriptionId>>}
  /\ response' = Response("result", "", "", <<>>, TRUE)
  /\ batch' = NoBatch
  /\ UNCHANGED <<client, applied, tasks, connections, store, pending, now>>

\* messageHandler of the Lambda handlers with an unsubscribe message; the
\* response is posted to the connection
messageHandler(connectionId, subscriptionId) ==
  /\ used.unsubscribe < MaxUnsubscribes
  /\ used' = [used EXCEPT !.unsubscribe = @ + 1]
  /\ dependencies' = UnsubscribeDependencies(connectionId, subscriptionId)
  /\ queries' = Delete(queries, <<connectionId, subscriptionId>>)
  /\ unsubscribed' = unsubscribed \cup {<<connectionId, subscriptionId>>}
  /\ response' = Response("result", "", "", <<>>, TRUE)
  /\ batch' = NoBatch
  /\ UNCHANGED <<client, applied, tasks, connections, store, pending, now>>

ConnectionEntry(connectionId) ==
  [connectionId |-> connectionId, connectedAt |-> now, ttl |-> ttlAt(now)]

registerConnection(connectionId) ==
  /\ connections' = Put(connections, connectionId, ConnectionEntry(connectionId))
  /\ response' = NoResponse
  /\ batch' = NoBatch
  /\ UNCHANGED <<client, applied, tasks, queries, dependencies, store, pending, now, unsubscribed, used>>

connectHandler(connectionId) ==
  /\ connections' = Put(connections, connectionId, ConnectionEntry(connectionId))
  /\ response' = NoResponse
  /\ batch' = NoBatch
  /\ UNCHANGED <<client, applied, tasks, queries, dependencies, store, pending, now, unsubscribed, used>>

unregisterConnection(connectionId) ==
  /\ connections' = Delete(connections, connectionId)
  /\ response' = NoResponse
  /\ batch' = NoBatch
  /\ UNCHANGED <<client, applied, tasks, queries, dependencies, store, pending, now, unsubscribed, used>>

disconnectHandler(connectionId) ==
  /\ connections' = Delete(connections, connectionId)
  /\ response' = NoResponse
  /\ batch' = NoBatch
  /\ UNCHANGED <<client, applied, tasks, queries, dependencies, store, pending, now, unsubscribed, used>>

\* the handler returned by createDisconnectHandler
createDisconnectHandler(connectionId) ==
  /\ connections' = Delete(connections, connectionId)
  /\ response' = NoResponse
  /\ batch' = NoBatch
  /\ UNCHANGED <<client, applied, tasks, queries, dependencies, store, pending, now, unsubscribed, used>>

\* ------------------------------------------------------------ environment
\* Date.now() advances
Tick ==
  /\ now < MaxTime * MsPerSecond
  /\ now' = now + MsPerSecond
  /\ response' = NoResponse
  /\ batch' = NoBatch
  /\ UNCHANGED <<client, applied, tasks, connections, queries, dependencies, store, pending,
                 unsubscribed, used>>

\* the change stream holds a record for a while before it delivers it
StreamDelay ==
  /\ pending # <<>>
  /\ Tick

ChangeRecord(id, old, new) ==
  [table |-> TodoTable,
   hasOld |-> old # Absent, oldImage |-> Item(id, old),
   hasNew |-> new # Absent, newImage |-> Item(id, new)]

\* a write to the Todo table (put, update or delete of one item), which the
\* change stream reports with the old and the new image
WriteItemUpTo(id, list, maxBatch) ==
  /\ used.batch < MaxBatches
  /\ Len(pending) < maxBatch
  /\ store[id] # list
  /\ store' = [store EXCEPT ![id] = list]
  /\ pending' = Append(pending, ChangeRecord(id, store[id], list))
  /\ response' = NoResponse
  /\ batch' = NoBatch
  /\ UNCHANGED <<client, applied, tasks, connections, queries, dependencies, now, unsubscribed, used>>

WriteItem(id, list) == WriteItemUpTo(id, list, MaxBatch)

\* --------------------------------------------------------- change processor
FailModes == {"none", "load", "query", "persist", "push", "gone"}

AffectedKeys(record) ==
  (IF record.hasNew
     THEN Range(extractAffectedKeys(record.table, record.newImage)) ELSE {}) \cup
  (IF record.hasOld
     THEN Range(extractAffectedKeys(record.table, record.oldImage)) ELSE {})

findAffectedSubscriptions(dependencyKey) ==
  {<<dependencies[k].connectionId, dependencies[k].subscriptionId>> :
     k \in {e \in DOMAIN dependencies : e[1] = dependencyKey}}

\* the first loop of the handler: the pairs collected over the whole batch
AffectedSubscriptions(records) ==
  UNION {UNION {findAffectedSubscriptions(key) : key \in AffectedKeys(records[i])} :
           i \in DOMAIN records}

\* a failing statement is caught and yields the empty list
executeQueryFromMetadata(metadata, fails) ==
  LET r == ExecuteStatement(metadata.tableName,
                            buildWhereClause(metadata.filterConditions), store)
  IN  IF fails \/ ~r.ok THEN <<>> ELSE r.items

PatchMessage(subscriptionId, patches) ==
  [type |-> "patch", subscriptionId |-> subscriptionId, patches |-> patches]

\* What one processSubscription task does: whether it wrote the row and with
\* which content, the messages it delivered, whether it called
\* cleanupConnection, and whether its promise rejected.
Outcome(wrote, row, sent, cleanup) ==
  [wrote |-> wrote, row |-> row, sent |-> sent, cleanup |-> cleanup,
   rejected |-> FALSE]

Skip == Outcome(FALSE, <<>>, <<>>, FALSE)

\* processSubscription of handlers/stream-handler.ts.  A failing load is
\* caught by getQueryState, a failing write by updateQueryState, a failing
\* delivery other than connection-gone by sendPatch.
processSubscription(connectionId, subscriptionId, fail) ==
  IF fail = "load" \/ <<connectionId, subscriptionId>> \notin DOMAIN queries
    THEN Skip
  ELSE LET queryState == queries[<<connectionId, subscriptionId>>]
           newResult == executeQueryFromMetadata(queryState.queryMetadata,
                                                 fail = "query")
           patches == generatePatches(queryState.lastResult, newResult)
       IN  IF ~hasChanges(queryState.lastResult, newResult) THEN Skip
           ELSE Outcome(fail # "persist",
                        <<[queryState EXCEPT !.lastResult = newResult,
                                             !.updatedAt = now]>>,
                        IF fail \in {"push", "gone"} THEN <<>>
                        ELSE <<PatchMessage(subscriptionId, patches)>>,
                        fail = "gone")

\* processSubscription of handlers/lambda-handlers.ts.  Every failure
\* reaches the catch of the task, so a failing write sends nothing.
processSubscriptionLambda(connectionId, subscriptionId, fail) ==
  IF fail = "load" \/ <<connectionId, subscriptionId>> \notin DOMAIN queries
    THEN Skip
  ELSE LET queryState == queries[<<connectionId, subscriptionId>>]
           newResult == executeQueryFromMetadata(queryState.queryMetadata,
                                                 fail = "query")
           patches == generatePatches(queryState.lastResult, newResult)
       IN  IF ~hasChanges(queryState.lastResult, newResult) THEN Skip
           ELSE Outcome(fail # "persist",
                        <<[queryState EXCEPT !.lastResult = newResult,
                                             !.updatedAt = now]>>,
                        IF fail \in {"persist", "push", "gone"} THEN <<>>
                        ELSE <<PatchMessage(subscriptionId, patches)>>,
                        fail = "gone")

\* The failures that can happen to a task are those of the calls it makes:
\* the load always, the re-query when the row exists, the write and the
\* delivery when the result changed.
FailPoints(connectionId, subscriptionId) ==
  IF <<connectionId, subscriptionId>> \notin DOMAIN queries
    THEN {"none", "load"}
  ELSE LET queryState == queries[<<connectionId, subscriptionId>>]
       IN  IF hasChanges(queryState.lastResult,
                         executeQueryFromMetadata(queryState.queryMetadata, FALSE))
             THEN FailModes
             ELSE {"none", "load", "query"}

\* the failures a batch can meet: one call per task at most, and at most
\* MaxFailures failing tasks
Failures ==
  {f \in [Pairs -> FailModes] :
     Cardinality({p \in Pairs : f[p] # "none"}) <= MaxFailures}

NoFailure == [p \in Pairs |-> "none"]

\* cleanupConnection of handlers/stream-handler.ts only logs
cleanupConnection(conns, connectionId) == conns

\* cleanupConnection of handlers/lambda-handlers.ts deletes the Connection row
cleanupConnectionLambda(conns, connectionId) == Delete(conns, connectionId)

\* tasks run one after the other in a loop that a missing row ends
sendPromisesStopAtMissing(affected, fail) ==
  [p \in affected |->
     IF \E q \in affected : q \notin DOMAIN queries THEN Skip
     ELSE processSubscription(p[1], p[2], fail[p])]

\* tasks awaited together, so that one failure abandons the others
sendPromisesStopAtFailure(affected, fail) ==
  [p \in affected |->
     IF \E q \in affected : fail[q] # "none" THEN Skip
     ELSE processSubscription(p[1], p[2], fail[p])]

\* one task per affected pair, all started before any is awaited
sendPromises(affected, fail) ==
  [p \in affected |-> processSubscription(p[1], p[2], fail[p])]

sendPromisesLambda(affected, fail) ==
  [p \in affected |-> processSubscriptionLambda(p[1], p[2], fail[p])]

\* Promise.allSettled never rejects
allSettled(outcomes) == FALSE

QueriesAfter(outcomes) ==
  [p \in DOMAIN queries |->
     IF p \in DOMAIN outcomes /\ outcomes[p].wrote
       THEN outcomes[p].row[1] ELSE queries[p]]

BatchLog(op, affected, fail, outcomes) ==
  [op |-> op, affected |-> affected, fail |-> fail,
   written |-> {p \in affected : outcomes[p].wrote},
   pushed |-> [p \in affected |-> outcomes[p].sent],
   raised |-> allSettled(outcomes)]

Gone(affected, outcomes) == {p[1] : p \in {q \in affected : outcomes[q].cleanup}}

RECURSIVE CleanupAll(_, _)
CleanupAll(conns, gone) ==
  IF gone = {} THEN conns
  ELSE LET c == CHOOSE x \in gone : TRUE
       IN  CleanupAll(cleanupConnection(conns, c), gone \ {c})

RECURSIVE CleanupAllLambda(_, _)
CleanupAllLambda(conns, gone) ==
  IF gone = {} THEN conns
  ELSE LET c == CHOOSE x \in gone : TRUE
       IN  CleanupAllLambda(cleanupConnectionLambda(conns, c), gone \ {c})

\* handler of createStreamHandler (handlers/stream-handler.ts) on the batch
\* of all pending change records.  What the clients do with the messages
\* pushed is left to the step that uses this.
Handled(fail) ==
  /\ used.batch < MaxBatches
  /\ used' = [used EXCEPT !.batch = @ + 1]
  /\ pending # <<>>
  /\ LET affected == AffectedSubscriptions(pending)
         outcomes == sendPromises(affected, fail)
     IN  /\ \A p \in Pairs :
              fail[p] \in IF p \in affected THEN FailPoints(p[1], p[2]) ELSE {"none"}
         /\ queries' = QueriesAfter(outcomes)
         /\ connections' = CleanupAll(connections, Gone(affected, outcomes))
         /\ batch' = BatchLog("handler", affected, fail, outcomes)
  /\ pending' = <<>>
  /\ response' = NoResponse
  /\ UNCHANGED <<applied, tasks, dependencies, store, now, unsubscribed>>

\* a batch whose pushed messages no modelled client receives
handler(fail) ==
  /\ Handled(fail)
  /\ UNCHANGED client

\* streamHandler of createLambdaHandlers (handlers/lambda-handlers.ts)
streamHandler(fail) ==
  /\ used.batch < MaxBatches
  /\ used' = [used EXCEPT !.batch = @ + 1]
  /\ pending # <<>>
  /\ LET affected == AffectedSubscriptions(pending)
         outcomes == sendPromisesLambda(affected, fail)
     IN  /\ \A p \in Pairs :
              fail[p] \in IF p \in affected THEN FailPoints(p[1], p[2]) ELSE {"none"}
         /\ queries' = QueriesAfter(outcomes)
         /\ connections' = CleanupAllLambda(connections, Gone(affected, outcomes))
         /\ batch' = BatchLog("streamHandler", affected, fail, outcomes)
  /\ pending' = <<>>
  /\ response' = NoResponse
  /\ UNCHANGED <<client, applied, tasks, dependencies, store, now, unsubscribed>>

\* ------------------------------------------------------------ specification
\* The reactive handler and the connection handlers, with every kind of
\* subscribe request
NextReactive ==
  \/ \E c \in Conns, s \in SubIds, path \in RequestPaths, input \in RequestInputs :
       handleSubscribe(c, s, path, input)
  \/ \E c \in Conns, s \in SubIds : handleUnsubscribe(c, s)
  \/ \E c \in Conns, s \in SubIds : messageHandler(c, s)
  \/ \E c \in Conns : registerConnection(c)
  \/ \E c \in Conns : connectHandler(c)
  \/ \E c \in Conns : unregisterConnection(c)
  \/ \E c \in Conns : disconnectHandler(c)
  \/ \E c \in Conns : createDisconnectHandler(c)
  \/ Tick

SpecReactive == Init /\ [][NextReactive]_vars

\* The change processor with the requests that feed it
NextStream ==
  \/ \E c \in Conns, s \in SubIds, path \in {"todos.list", "todos.byPrefix"} :
       handleSubscribe(c, s, path, JStr(L1))
  \/ \E c \in Conns, s \in SubIds : handleUnsubscribe(c, s)
  \/ \E c \in Conns, s \in SubIds : messageHandler(c, s)
  \/ \E id \in ItemIds, list \in TaskLists \cup {Absent} : WriteItem(id, list)
  \/ StreamDelay
  \/ handler(NoFailure)
  \/ streamHandler(NoFailure)

SpecStream == Init /\ [][NextStream]_vars

\* The change processor when calls of its tasks fail
NextFailures ==
  \/ \E c \in Conns, s \in SubIds : handleSubscribe(c, s, "todos.list", JStr(L1))
  \/ \E id \in ItemIds, list \in TaskLists \cup {Absent} : WriteItem(id, list)
  \/ StreamDelay
  \/ \E fail \in Failures : handler(fail)
  \/ \E fail \in Failures : streamHandler(fail)

SpecFailures == Init /\ [][NextFailures]_vars

\* Connections that are registered, subscribe, and are found gone or
\* disconnect
NextCleanup ==
  \/ \E c \in Conns : registerConnection(c)
  \/ \E c \in Conns, s \in SubIds : handleSubscribe(c, s, "todos.list", JStr(L1))
  \/ \E id \in ItemIds, list \in TaskLists \cup {Absent} : WriteItem(id, list)
  \/ \E fail \in Failures : handler(fail)
  \/ \E fail \in Failures : streamHandler(fail)
  \/ \E c \in Conns : unregisterConnection(c)
  \/ \E c \in Conns : disconnectHandler(c)
  \/ \E c \in Conns : createDisconnectHandler(c)

SpecCleanup == Init /\ [][NextCleanup]_vars

\* ------------------------------------------------------------- properties
\* the dependency keys of the index entries that point back at a pair
IndexKeys(connectionId, subscriptionId) ==
  {e[1] : e \in {k \in DOMAIN dependencies :
                   k[2] = connectionId /\ k[3] = subscriptionId}}

\* the key Todo#taskListId#L1
KeyTodoTaskListIdL1 ==
  <<"T", "o", "d", "o", "#", "t", "a", "s", "k", "L", "i", "s", "t", "I", "d",
    "#", "L", "1">>

\* the items a procedure of the router is meant to return
ExpectedResult(path, value, st) ==
  LET items == TableItems(st)
  IN  SelectItems(items,
        [i \in DOMAIN items |->
           IF path = "todos.list" THEN items[i].taskListId = value
           ELSE StartsWith(items[i].taskListId, value)])

\* the subscribe requests that the router fails: unknown path, input that
\* is not a string, resolver that throws
RouterFails(path, input) ==
  \/ path \notin Paths
  \/ input.t # "string"
  \/ path = "todos.broken"

\* a step of either change processor
BatchStep ==
  \E fail \in Failures : handler(fail) \/ streamHandler(fail)

\* the result of re-running the stored query of a pair now
Requery(p) == executeQueryFromMetadata(queries[p].queryMetadata, FALSE)

\* C1: after completed subscribe and unsubscribe requests, the index entries
\* that point back at a pair are exactly the dependency keys recorded on its
\* Subscription row, and there are none when the row does not exist.
C1_IndexEqualsRowKeys ==
  \A p \in Pairs :
    IndexKeys(p[1], p[2]) =
      IF p \in DOMAIN queries THEN Range(queries[p].dependencies) ELSE {}

\* C2: a subscribe request whose path is unknown, whose input fails
\* validation or whose resolver throws returns an error response carrying the
\* subscriptionId and leaves the Subscription rows and the index unchanged.
C2_FailedSubscribeWritesNothing ==
  [][\A c \in Conns, s \in SubIds, path \in RequestPaths, input \in RequestInputs :
       (handleSubscribe(c, s, path, input) /\ RouterFails(path, input)) =>
         /\ response'.type = "error"
         /\ response'.subscriptionId = s
         /\ UNCHANGED <<queries, dependencies>>]_vars

\* C2 happens: an invalid input is answered with an error while rows and
\* index entries are stored
C2_Witness ==
  /\ response.type = "error"
  /\ response.subscriptionId = "s1"
  /\ response.message = "Invalid input"
  /\ DOMAIN queries # {}
  /\ DOMAIN dependencies # {}

C4_UnsubscribedIsNeverSelected ==
  \A p \in unsubscribed :
    /\ p \notin DOMAIN queries
    /\ p \notin batch.affected

\* C5: when the re-query of an affected subscription differs from its
\* lastResult, the change processor stores the new result as lastResult with
\* updatedAt set to the current time and pushes one patch message for the
\* subscriptionId whose operations turn the old lastResult into the new result.
C5_ChangedResultIsPersistedAndPushed ==
  [][BatchStep =>
       \A p \in batch'.affected \cap DOMAIN queries :
         (batch'.fail[p] = "none" /\ Requery(p) # queries[p].lastResult) =>
           /\ queries'[p].lastResult = Requery(p)
           /\ queries'[p].updatedAt = now
           /\ Len(batch'.pushed[p]) = 1
           /\ batch'.pushed[p][1].type = "patch"
           /\ batch'.pushed[p][1].subscriptionId = p[2]
           /\ applyPatches(queries[p].lastResult, batch'.pushed[p][1].patches) =
                [ok |-> TRUE, doc |-> Requery(p)]]_vars

\* C5 happens: a batch stored a new result later than the row was created
\* and pushed a patch of two operations
C5_Witness ==
  /\ batch.op # "none"
  /\ \E p \in batch.written :
       /\ queries[p].updatedAt > queries[p].createdAt
       /\ Len(batch.pushed[p]) = 1
       /\ Len(batch.pushed[p][1].patches) = 2

\* C6: when the re-query of an affected subscription equals its lastResult,
\* the change processor leaves the Subscription row as it is and sends no
\* message.
C6_UnchangedResultWritesAndSendsNothing ==
  [][BatchStep =>
       \A p \in batch'.affected \cap DOMAIN queries :
         (batch'.fail[p] = "none" /\ Requery(p) = queries[p].lastResult) =>
           /\ queries'[p] = queries[p]
           /\ batch'.pushed[p] = <<>>]_vars

\* C6 happens: a batch selected a subscription whose stored result, with
\* items in it, is the current result, and it wrote and pushed nothing for it
C6_Witness ==
  /\ batch.op # "none"
  /\ \E p \in batch.affected \cap DOMAIN queries :
       /\ batch.fail[p] = "none"
       /\ queries[p].lastResult # <<>>
       /\ Requery(p) = queries[p].lastResult
       /\ p \notin batch.written
       /\ batch.pushed[p] = <<>>
       /\ queries[p].updatedAt = queries[p].createdAt

\* C7: a pair that the index lookup yields and that has no Subscription row
\* is skipped (no row written, no message pushed, no error raised), and the
\* other pairs of the batch are still processed.
C7_MissingRowIsSkipped ==
  [][BatchStep =>
       \A p \in batch'.affected \ DOMAIN queries :
         /\ p \notin DOMAIN queries'
         /\ batch'.pushed[p] = <<>>
         /\ ~batch'.raised
         /\ \A q \in batch'.affected \cap DOMAIN queries :
              (batch'.fail[q] = "none" /\ Requery(q) # queries[q].lastResult) =>
                /\ queries'[q].lastResult = Requery(q)
                /\ Len(batch'.pushed[q]) = 1]_vars

\* C7 happens: a batch selected a pair without a row and a pair with a row,
\* and wrote and pushed for the second
C7_Witness ==
  /\ batch.op # "none"
  /\ \E p \in batch.affected, q \in batch.written :
       /\ p \notin DOMAIN queries
       /\ batch.pushed[p] = <<>>
       /\ Len(batch.pushed[q]) = 1

\* C8: a failure while one subscription of a batch is processed (load,
\* re-query, write or delivery) leaves the other affected subscriptions
\* re-evaluated and pushed, and the batch handler does not raise.
C8_FailureIsIsolated ==
  [][BatchStep =>
       /\ ~batch'.raised
       /\ \A p \in batch'.affected :
            batch'.fail[p] # "none" =>
              \A q \in (batch'.affected \cap DOMAIN queries) \ {p} :
                (batch'.fail[q] = "none" /\ Requery(q) # queries[q].lastResult) =>
                  /\ queries'[q].lastResult = Requery(q)
                  /\ Len(batch'.pushed[q]) = 1
                  /\ applyPatches(queries[q].lastResult,
                                  batch'.pushed[q][1].patches).doc = Requery(q)]_vars

\* C8 happens: in one batch the task of a pair failed and the task of
\* another pair wrote and pushed
C8_Witness ==
  /\ batch.op # "none"
  /\ ~batch.raised
  /\ \E p \in batch.affected, q \in batch.written :
       /\ p # q
       /\ batch.fail[p] \in {"query", "persist", "push"}
       /\ Len(batch.pushed[q]) = 1

\* C9: after a batch in which the delivery to a connection failed with the
\* connection-gone signal, the Connection row of that connection does not
\* exist.
C9_GoneConnectionIsDeleted ==
  \A p \in batch.affected :
    batch.fail[p] = "gone" => p[1] \notin DOMAIN connections

\* C10: after the cleanup of a connection (disconnect handler or
\* unregisterConnection) no Subscription row and no index entry of that
\* connection remains.
C10_CleanupRemovesSubscriptions ==
  [][\A c \in Conns :
       (unregisterConnection(c) \/ disconnectHandler(c) \/
        createDisconnectHandler(c)) =>
         /\ \A p \in DOMAIN queries' : p[1] # c
         /\ \A k \in DOMAIN dependencies' : k[2] # c]_vars

\* ---------------------------------------------------- client: the messages
Undefined == [t |-> "undefined", s |-> <<>>, n |-> 0]

\* ClientMessage of the client's types: subscribe, unsubscribe, call
ClientMessage(type, subscriptionId, callId, path, input) ==
  [type |-> type, subscriptionId |-> subscriptionId, callId |-> callId,
   path |-> path, input |-> input]

NoMessage == ClientMessage("none", "", "", "", Undefined)

\* ServerMessage of the client's types: snapshot, patch, result, error
ServerMessage(type, subscriptionId, callId, data, patches, message) ==
  [type |-> type, subscriptionId |-> subscriptionId, callId |-> callId,
   data |-> data, patches |-> patches, message |-> message]

\* a callback, listener or socket method run by a step
Event(kind, what, message) == [kind |-> kind, what |-> what, message |-> message]

Notify(m, kind, what) ==
  [m EXCEPT !.events = Append(@, Event(kind, what, NoMessage))]

\* ------------------------------------------- client: the connection manager
\* readyState of a socket is OPEN
IsOpen(m, id) == id \in DOMAIN m.sockets /\ m.sockets[id] = "open"

\* WebSocketManager.send
send(m, message) ==
  IF m.state = "connected" /\ IsOpen(m, m.ws)
    THEN [m EXCEPT !.transmitted = Append(@, message),
                   !.events = Append(@, Event("transmit", "", message))]
    ELSE [m EXCEPT !.messageQueue = Append(@, message)]

RECURSIVE SendAll(_, _)
SendAll(m, queue) ==
  IF queue = <<>> THEN m ELSE SendAll(send(m, Head(queue)), Tail(queue))

\* a flush that empties the queue and hands the messages to the socket only
\* when the socket is open
flushMessageQueueOrDrop(m) ==
  IF IsOpen(m, m.ws) THEN SendAll([m EXCEPT !.messageQueue = <<>>], m.messageQueue)
  ELSE [m EXCEPT !.messageQueue = <<>>]

\* WebSocketManager.flushMessageQueue
flushMessageQueue(m) ==
  LET queue == m.messageQueue
  IN  SendAll([m EXCEPT !.messageQueue = <<>>], queue)

\* ReactiveClient.resubscribeAll, one subscription of the map after the other
RECURSIVE ResubscribeFrom(_, _)
ResubscribeFrom(m, i) ==
  IF i > Len(m.subscriptions) THEN m
  ELSE LET state == m.subscriptions[i] IN
       IF state.resubscribeOnReconnect
         THEN LET m1 == [m EXCEPT !.subscriptions[i].loading = TRUE]
                  m2 == Notify(m1, "listener", state.id)
                  m3 == send(m2, ClientMessage("subscribe", state.id, "",
                                               state.path, state.input))
              IN  ResubscribeFrom(m3, i + 1)
         ELSE ResubscribeFrom(m, i + 1)

resubscribeAll(m) == ResubscribeFrom(m, 1)

\* WebSocketManager.setState with the state handler the ReactiveClient
\* registers in its constructor
setState(m, state) ==
  LET m1 == Notify([m EXCEPT !.state = state, !.connectionState = state],
                   "state", state)
  IN  IF state = "connected" THEN resubscribeAll(m1) ELSE m1

\* the handle setTimeout returns
NewTimer(m) == CHOOSE t \in 1..(Cardinality(m.timers) + 1) : t \notin m.timers

\* a scheduler that does not look at the attempts made
scheduleReconnectUnbounded(m) ==
  LET m1 == setState(m, "reconnecting")
      t == NewTimer(m1)
  IN  [m1 EXCEPT !.reconnectAttempts = @ + 1,
                 !.reconnectTimer = t,
                 !.timers = @ \cup {t}]

\* WebSocketManager.scheduleReconnect
scheduleReconnect(m) ==
  IF m.reconnectAttempts >= m.maxReconnectAttempts THEN m
  ELSE LET m1 == setState(m, "reconnecting")
           t == NewTimer(m1)
       IN  [m1 EXCEPT !.reconnectAttempts = @ + 1,
                      !.reconnectTimer = t,
                      !.timers = @ \cup {t}]

\* WebSocketManager.connect up to its await of buildUrl
connect(m) ==
  IF m.state \in {"connected", "connecting"} THEN m
  ELSE [setState(m, "connecting") EXCEPT !.connects = @ + 1]

\* WebSocketManager.connect after buildUrl: the socket is created and the
\* handlers are attached, or the catch block runs
connectResume(m, throws) ==
  LET m1 == [m EXCEPT !.connects = @ - 1] IN
  IF throws
    THEN LET m2 == Notify(setState(m1, "disconnected"), "onError", "")
         IN  IF m2.autoReconnect THEN scheduleReconnect(m2) ELSE m2
    ELSE LET id == m1.opened + 1
         IN  [m1 EXCEPT !.ws = id,
                        !.opened = id,
                        !.sockets = Put(@, id, "connecting")]

\* WebSocket.close called by the page: the closing handshake starts on an
\* open socket, the connection attempt is failed on a connecting one
close(m, id) ==
  IF id \notin DOMAIN m.sockets THEN m
  ELSE [m EXCEPT !.sockets[id] =
          IF @ = "connecting" THEN "failing"
          ELSE IF @ = "open" THEN "closing" ELSE @]

\* WebSocketManager.disconnect
disconnect(m) ==
  LET m1 == IF m.reconnectTimer # 0
              THEN [m EXCEPT !.timers = @ \ {m.reconnectTimer},
                             !.reconnectTimer = 0]
              ELSE m
      m2 == IF m1.ws # 0 THEN [close(m1, m1.ws) EXCEPT !.ws = 0] ELSE m1
  IN  setState(m2, "disconnected")

\* ws.onopen
onopen(m) ==
  LET m1 == setState(m, "connected")
      m2 == [m1 EXCEPT !.reconnectAttempts = 0]
      m3 == flushMessageQueue(m2)
  IN  Notify(m3, "onConnect", "")

\* the close event handed to ws.onclose
CloseEvent(wasClean) ==
  Event("close", IF wasClean THEN "clean" ELSE "unclean", NoMessage)

\* a close handler that does not look at wasClean
oncloseAnyClose(m, wasClean) ==
  LET m1 == [m EXCEPT !.ws = 0, !.events = Append(@, CloseEvent(wasClean))]
      m2 == setState(m1, "disconnected")
      m3 == Notify(m2, "onDisconnect", "")
  IN  IF m3.autoReconnect THEN scheduleReconnect(m3) ELSE m3

\* ws.onclose
onclose(m, wasClean) ==
  LET m1 == [m EXCEPT !.ws = 0, !.events = Append(@, CloseEvent(wasClean))]
      m2 == setState(m1, "disconnected")
      m3 == Notify(m2, "onDisconnect", "")
  IN  IF m3.autoReconnect /\ ~wasClean THEN scheduleReconnect(m3) ELSE m3

\* ws.onerror
onerror(m) == Notify(m, "onError", "")

\* the callback scheduleReconnect hands to setTimeout
reconnectTimeout(m, t) ==
  connect([m EXCEPT !.timers = @ \ {t}, !.reconnectTimer = 0])

\* wasClean of the close event a socket can get: a socket that never opened
\* closes uncleanly
CloseKinds(phase) ==
  IF phase \in {"connecting", "failing"} THEN {FALSE} ELSE {TRUE, FALSE}

\* ------------------------------------------------- client: the subscriptions
\* ids generateId may return
ClientSubscriptionIds == {"s1", "s2"}
CallIds == {"k1"}

\* SubscriptionState; data is <<>> while undefined and <<document>> otherwise,
\* error is "" while undefined and the message of the Error otherwise
SubscriptionState(id, path, input, resubscribeOnReconnect) ==
  [id |-> id, path |-> path, input |-> input,
   resubscribeOnReconnect |-> resubscribeOnReconnect,
   data |-> <<>>, loading |-> TRUE, error |-> ""]

\* this.subscriptions.get(id): the position of the entry, 0 when there is none
Find(m, id) ==
  IF \E i \in DOMAIN m.subscriptions : m.subscriptions[i].id = id
    THEN CHOOSE i \in DOMAIN m.subscriptions : m.subscriptions[i].id = id
    ELSE 0

\* ReactiveClient.subscribe
subscribe(m, id, path, input, resubscribeOnReconnect) ==
  LET state == SubscriptionState(id, path, input, resubscribeOnReconnect)
      m1 == [m EXCEPT !.subscriptions = Append(@, state),
                      !.generated = @ \cup {id}]
  IN  send(m1, ClientMessage("subscribe", id, "", path, input))

\* ReactiveClient.call with the timer it starts
call(m, callId, path, input) ==
  LET m1 == [m EXCEPT !.pendingCalls = @ \cup {callId},
                      !.generated = @ \cup {callId}]
      m2 == send(m1, ClientMessage("call", "", callId, path, input))
  IN  [m2 EXCEPT !.callTimers = @ \cup {callId}]

\* how a promise of call() was settled
Settled(callId, how, data, message) ==
  [callId |-> callId, how |-> how, data |-> data, message |-> message]

\* a timer callback that rejects without looking at the pending calls
callTimeoutUnchecked(m, callId) ==
  [m EXCEPT !.callTimers = @ \ {callId},
            !.pendingCalls = @ \ {callId},
            !.settled = Append(@, Settled(callId, "rejected", <<>>,
                                          "Call timeout"))]

\* the callback call() hands to setTimeout
callTimeout(m, callId) ==
  LET m1 == [m EXCEPT !.callTimers = @ \ {callId}] IN
  IF callId \in m1.pendingCalls
    THEN [m1 EXCEPT !.pendingCalls = @ \ {callId},
                    !.settled = Append(@, Settled(callId, "rejected", <<>>,
                                                  "Call timeout"))]
    ELSE m1

\* an unsubscribe that tells the server and keeps the local entry
unsubscribeKeepingState(m, id) ==
  IF Find(m, id) = 0 THEN m
  ELSE send(m, ClientMessage("unsubscribe", id, "", "", Undefined))

\* ReactiveClient.unsubscribe
unsubscribe(m, id) ==
  LET i == Find(m, id) IN
  IF i = 0 THEN m
  ELSE LET m1 == [m EXCEPT !.subscriptions =
                     SubSeq(@, 1, i - 1) \o SubSeq(@, i + 1, Len(@))]
       IN  send(m1, ClientMessage("unsubscribe", id, "", "", Undefined))

\* ReactiveClient.refetch
refetch(m, id) ==
  LET i == Find(m, id) IN
  IF i = 0 THEN m
  ELSE LET state == m.subscriptions[i]
           m1 == [m EXCEPT !.subscriptions[i].loading = TRUE]
           m2 == Notify(m1, "listener", id)
       IN  send(m2, ClientMessage("subscribe", id, "", state.path, state.input))

\* applyPatches of the client's patcher
clientApplyPatches(document, patches) ==
  IF Len(patches) = 0 THEN [ok |-> TRUE, doc |-> document]
  ELSE applyPatches(document, patches)

\* fast-json-patch applyOperation with validation, on an object: the first
\* token of the pointer is a key of the object, add sets the key, remove and
\* replace need the path to exist
applyOperationToObject(doc, patch) ==
  LET key == ToString(patch.index) IN
  IF patch.op = "add" /\ patch.field = ""
    THEN [ok |-> TRUE,
          doc |-> [k \in DOMAIN doc \cup {key} |->
                     IF k = key THEN patch.item ELSE doc[k]]]
  ELSE IF patch.op = "remove" /\ patch.field = "" /\ key \in DOMAIN doc
    THEN [ok |-> TRUE, doc |-> [k \in DOMAIN doc \ {key} |-> doc[k]]]
  ELSE IF patch.op = "replace" /\ key \in DOMAIN doc
                               /\ patch.field \in {"id", "taskListId"}
    THEN [ok |-> TRUE,
          doc |-> [doc EXCEPT ![key] = [@ EXCEPT ![patch.field] = patch.value]]]
  ELSE [ok |-> FALSE, doc |-> doc]

RECURSIVE applyPatchesToObject(_, _)
applyPatchesToObject(document, patches) ==
  IF patches = <<>> THEN [ok |-> TRUE, doc |-> document]
  ELSE LET r == applyOperationToObject(document, Head(patches))
       IN  IF r.ok THEN applyPatchesToObject(r.doc, Tail(patches))
           ELSE [ok |-> FALSE, doc |-> document]

\* applyPatches of the client's patcher on the data of a subscription.
\* fast-json-patch tells an array from an object by looking at the value; the
\* data of a subscription has the shape of the result of its procedure.
patchData(state, patches) ==
  IF state.path \in SinglePaths /\ Len(patches) # 0
    THEN applyPatchesToObject(state.data[1], patches)
    ELSE clientApplyPatches(state.data[1], patches)

\* ReactiveClient.handleSnapshot
handleSnapshot(m, subscriptionId, data) ==
  LET i == Find(m, subscriptionId) IN
  IF i = 0 THEN m
  ELSE LET m1 == [m EXCEPT !.subscriptions[i].data = <<data>>,
                           !.subscriptions[i].loading = FALSE,
                           !.subscriptions[i].error = ""]
       IN  Notify(Notify(m1, "listener", subscriptionId),
                  "onData", subscriptionId)

\* a patch handler without the catch: the error of applyPatches leaves the
\* handler and nothing is recorded on the subscription
handlePatchUncaught(m, subscriptionId, patches) ==
  LET i == Find(m, subscriptionId) IN
  IF i = 0 \/ m.subscriptions[i].data = <<>> THEN m
  ELSE LET r == patchData(m.subscriptions[i], patches) IN
       IF r.ok
         THEN Notify(Notify([m EXCEPT !.subscriptions[i].data = <<r.doc>>],
                            "listener", subscriptionId),
                     "onData", subscriptionId)
         ELSE m

\* ReactiveClient.handlePatch
handlePatch(m, subscriptionId, patches) ==
  LET i == Find(m, subscriptionId) IN
  IF i = 0 \/ m.subscriptions[i].data = <<>> THEN m
  ELSE LET r == patchData(m.subscriptions[i], patches) IN
       IF r.ok
         THEN Notify(Notify([m EXCEPT !.subscriptions[i].data = <<r.doc>>],
                            "listener", subscriptionId),
                     "onData", subscriptionId)
         ELSE Notify(Notify([m EXCEPT !.subscriptions[i].error = "patch failed"],
                            "listener", subscriptionId),
                     "onError", subscriptionId)

\* ReactiveClient.handleResult
handleResult(m, callId, data) ==
  IF callId \notin m.pendingCalls THEN m
  ELSE [m EXCEPT !.pendingCalls = @ \ {callId},
                 !.settled = Append(@, Settled(callId, "resolved", data, ""))]

\* ReactiveClient.handleError
handleError(m, message) ==
  LET i == Find(m, message.subscriptionId)
      m1 == IF message.subscriptionId # "" /\ i # 0
              THEN Notify(Notify(
                     [m EXCEPT !.subscriptions[i].error = message.message,
                               !.subscriptions[i].loading = FALSE],
                     "listener", message.subscriptionId),
                     "onError", message.subscriptionId)
              ELSE m
  IN  IF message.callId # "" /\ message.callId \in m1.pendingCalls
        THEN [m1 EXCEPT !.pendingCalls = @ \ {message.callId},
                        !.settled = Append(@, Settled(message.callId, "rejected",
                                                      <<>>, message.message))]
        ELSE m1

\* ReactiveClient.handleMessage
handleMessage(m, message) ==
  IF message.type = "snapshot"
    THEN handleSnapshot(m, message.subscriptionId, message.data)
  ELSE IF message.type = "patch"
    THEN handlePatch(m, message.subscriptionId, message.patches)
  ELSE IF message.type = "result"
    THEN handleResult(m, message.callId, message.data)
  ELSE IF message.type = "error"
    THEN handleError(m, message)
  ELSE m

\* ws.onmessage: the manager hands the parsed message to the handler the
\* client registered
onmessage(m, message) ==
  handleMessage([m EXCEPT !.events = Append(@, Event("message", "", message))],
                message)

\* --------------------------------------------------------- client: the steps
\* the client when a step starts: the callbacks of the last step are forgotten
Begin == [client EXCEPT !.events = <<>>]

\* what the application hands to WebSocketManager.send
AppMessages ==
  {ClientMessage("subscribe", "s1", "", "todos.list", JStr(L1)),
   ClientMessage("unsubscribe", "s1", "", "", Undefined)}

\* what the application subscribes to and calls
ClientPaths == {"todos.list", "todos.broken"}

\* documents and patches the server may send
ClientDocuments == {<<>>, <<Item(<<"1">>, L1)>>}

ClientPatches ==
  {<<>>, <<Patch("replace", 0, "taskListId", L2, NoItem)>>}

\* what may arrive on a socket for a subscription
SubscriptionMessages ==
  {ServerMessage("snapshot", s, "", d, <<>>, "") :
     s \in ClientSubscriptionIds, d \in ClientDocuments} \cup
  {ServerMessage("patch", s, "", <<>>, p, "") :
     s \in ClientSubscriptionIds, p \in ClientPatches} \cup
  {ServerMessage("error", s, "", <<>>, <<>>, "failed") :
     s \in ClientSubscriptionIds}

\* what may arrive on a socket for a call, with a callId or without one
CallMessages ==
  {ServerMessage("result", "", k, <<>>, <<>>, "") : k \in CallIds \cup {""}} \cup
  {ServerMessage("error", "", k, <<>>, <<>>, "failed") : k \in CallIds \cup {""}}

\* the application calls connect()
Connect ==
  /\ client.connects < MaxPendingConnects
  /\ client' = [connect(Begin) EXCEPT !.stopped = FALSE]
  /\ UNCHANGED <<serverVars, applied, tasks>>

\* buildUrl settles and connect() goes on
ConnectResume(throws) ==
  /\ client.connects > 0
  /\ throws \/ client.opened < MaxSockets
  /\ client' = connectResume(Begin, throws)
  /\ UNCHANGED <<serverVars, applied, tasks>>

\* the application calls disconnect()
Disconnect ==
  /\ client' = [disconnect(Begin) EXCEPT !.stopped = TRUE]
  /\ UNCHANGED <<serverVars, applied, tasks>>

\* the application may hand one more message to the manager
MayAddMessage ==
  Len(client.transmitted) + Len(client.messageQueue) < MaxMessages

\* the application calls send(message) of the manager
Send(message) ==
  /\ MayAddMessage
  /\ client' = send(Begin, message)
  /\ UNCHANGED <<serverVars, applied, tasks>>

\* the open event of a socket
SocketOpen(id) ==
  /\ id \in DOMAIN client.sockets
  /\ client.sockets[id] = "connecting"
  /\ client' = onopen([Begin EXCEPT !.sockets[id] = "open"])
  /\ UNCHANGED <<serverVars, applied, tasks>>

\* the close event of a socket
SocketClose(id, wasClean) ==
  /\ id \in DOMAIN client.sockets
  /\ wasClean \in CloseKinds(client.sockets[id])
  /\ client' = onclose([Begin EXCEPT !.sockets = Delete(@, id)], wasClean)
  /\ UNCHANGED <<serverVars, applied, tasks>>

\* the error event of a socket
SocketError(id) ==
  /\ id \in DOMAIN client.sockets
  /\ client' = onerror(Begin)
  /\ UNCHANGED <<serverVars, applied, tasks>>

\* the message event of a socket
SocketMessage(id, message) ==
  /\ id \in DOMAIN client.sockets
  /\ client.sockets[id] \in {"open", "closing"}
  /\ client' = onmessage(Begin, message)
  /\ UNCHANGED <<serverVars, applied, tasks>>

\* a reconnect timer fires
ReconnectTimer(t) ==
  /\ t \in client.timers
  /\ client.connects < MaxPendingConnects
  /\ client' = reconnectTimeout(Begin, t)
  /\ UNCHANGED <<serverVars, applied, tasks>>

\* the timer of a call fires
CallTimer(callId) ==
  /\ callId \in client.callTimers
  /\ client' = callTimeout(Begin, callId)
  /\ UNCHANGED <<serverVars, applied, tasks>>

\* the application calls subscribe(path, options)
Subscribe(id, path, input, resubscribeOnReconnect) ==
  /\ id \notin client.generated
  /\ MayAddMessage
  /\ client' = subscribe(Begin, id, path, input, resubscribeOnReconnect)
  /\ UNCHANGED <<serverVars, applied, tasks>>

\* the application calls unsubscribe() of a subscription handle
Unsubscribe(id) ==
  /\ id \in client.generated
  /\ MayAddMessage
  /\ client' = unsubscribe(Begin, id)
  /\ UNCHANGED <<serverVars, applied, tasks>>

\* the application calls refetch() of a subscription handle
Refetch(id) ==
  /\ id \in client.generated
  /\ MayAddMessage
  /\ client' = refetch(Begin, id)
  /\ UNCHANGED <<serverVars, applied, tasks>>

\* the application calls call(path, input)
Call(callId, path, input) ==
  /\ callId \notin client.generated
  /\ MayAddMessage
  /\ client' = call(Begin, callId, path, input)
  /\ UNCHANGED <<serverVars, applied, tasks>>

\* the response of the reactive handler as the message the client parses
Delivered(r) ==
  ServerMessage(r.type, r.subscriptionId, "", r.data, <<>>, r.message)

\* handleRequest with a call request (handleCall): the procedure runs, an
\* error it throws reaches the catch of handleRequest, and the response
\* reaches the client that sent the request
handleCall(i) ==
  LET request == client.transmitted[i]
      r == execute(request.path, store, request.input)
  IN
  /\ i \in DOMAIN client.transmitted
  /\ request.type = "call"
  /\ \E id \in DOMAIN client.sockets : client.sockets[id] = "open"
  /\ response' = IF r.ok THEN Response("result", "", "", r.result, FALSE)
                 ELSE Response("error", "", r.message, <<>>, FALSE)
  /\ client' = onmessage(Begin, Delivered(response'))
  /\ batch' = NoBatch
  /\ UNCHANGED <<connections, queries, dependencies, store, pending, now,
                 unsubscribed, used, applied, tasks>>

\* ------------------------------------------------ client: the specifications
InitClient ==
  /\ connections = <<>>
  /\ queries = <<>>
  /\ dependencies = <<>>
  /\ store = [i \in ItemIds |-> L1]
  /\ pending = <<>>
  /\ now = 0
  /\ response = NoResponse
  /\ batch = NoBatch
  /\ unsubscribed = {}
  /\ used = [subscribe |-> 0, unsubscribe |-> 0, batch |-> 0]
  /\ client \in {ReactiveClient(autoReconnect) : autoReconnect \in BOOLEAN}
  /\ applied = NotApplied
  /\ tasks = NoTasks

\* the connection manager used on its own
NextManager ==
  \/ Connect
  \/ \E throws \in BOOLEAN : ConnectResume(throws)
  \/ Disconnect
  \/ \E message \in AppMessages : Send(message)
  \/ \E id \in 1..MaxSockets : SocketOpen(id)
  \/ \E id \in 1..MaxSockets, wasClean \in BOOLEAN : SocketClose(id, wasClean)
  \/ \E id \in 1..MaxSockets : SocketError(id)
  \/ \E t \in 1..(MaxSockets + MaxReconnectAttempts) : ReconnectTimer(t)

SpecManager == InitClient /\ [][NextManager]_vars

\* calls of procedures over one connection
NextCalls ==
  \/ Connect
  \/ ConnectResume(FALSE)
  \/ \E id \in 1..MaxSockets : SocketOpen(id)
  \/ \E id \in 1..MaxSockets, wasClean \in BOOLEAN : SocketClose(id, wasClean)
  \/ \E t \in 1..(MaxSockets + MaxReconnectAttempts) : ReconnectTimer(t)
  \/ \E callId \in CallIds, path \in ClientPaths, input \in RequestInputs :
       Call(callId, path, input)
  \/ \E callId \in CallIds : CallTimer(callId)
  \/ \E id \in 1..MaxSockets, message \in CallMessages :
       SocketMessage(id, message)
  \/ \E i \in 1..(MaxSockets + 1) : handleCall(i)

SpecCalls == InitClient /\ [][NextCalls]_vars

\* subscriptions over one connection
NextSubscriptions ==
  \/ Connect
  \/ ConnectResume(FALSE)
  \/ \E id \in 1..MaxSockets : SocketOpen(id)
  \/ \E id \in ClientSubscriptionIds, resubscribeOnReconnect \in BOOLEAN :
       Subscribe(id, "todos.list", JStr(L1), resubscribeOnReconnect)
  \/ \E id \in ClientSubscriptionIds : Unsubscribe(id)
  \/ \E id \in ClientSubscriptionIds : Refetch(id)
  \/ \E id \in 1..MaxSockets, message \in SubscriptionMessages :
       SocketMessage(id, message)

SpecSubscriptions == InitClient /\ [][NextSubscriptions]_vars

\* what the server sends after a subscribe and after a change
UpdateMessages ==
  {m \in SubscriptionMessages :
     \/ m.type = "snapshot" /\ m.data # <<>>
     \/ m.type = "patch" /\ m.patches # <<>>}

\* subscriptions over a connection that is lost and made again
NextResubscribe ==
  \/ Connect
  \/ ConnectResume(FALSE)
  \/ \E id \in 1..MaxSockets : SocketOpen(id)
  \/ \E id \in 1..MaxSockets, wasClean \in BOOLEAN : SocketClose(id, wasClean)
  \/ \E t \in 1..(MaxSockets + MaxReconnectAttempts) : ReconnectTimer(t)
  \/ \E id \in ClientSubscriptionIds, resubscribeOnReconnect \in BOOLEAN :
       Subscribe(id, "todos.list", JStr(L1), resubscribeOnReconnect)
  \/ \E id \in 1..MaxSockets, message \in UpdateMessages :
       SocketMessage(id, message)

SpecResubscribe == InitClient /\ [][NextResubscribe]_vars

\* the engine and a client together
\* ----------------------------------------------------- client: properties
\* C11: every call request the server handles is answered with a result or
\* error message that carries the request's callId, so that the pending call
\* of the client is settled by that message and not by its timeout.
C11_CallIsSettledByItsAnswer ==
  [][\A i \in DOMAIN client.transmitted :
       (handleCall(i) /\ client.transmitted[i].callId \in client.pendingCalls) =>
         /\ Delivered(response').callId = client.transmitted[i].callId
         /\ client.transmitted[i].callId \notin client'.pendingCalls]_vars

\* the promises of call() that were settled for a callId
SettledFor(callId) ==
  {i \in DOMAIN client.settled : client.settled[i].callId = callId}

\* the client after a message that it ignores
Ignored(message) ==
  [client EXCEPT !.events = <<Event("message", "", message)>>]

\* C12: each call() settles exactly once, by the first of the matching
\* result, the matching error and the timeout; the timeout rejects with a
\* timeout error and removes the pending entry, and a result or error that
\* arrives for a callId that is no longer pending changes nothing and settles
\* nothing.
C12_CallSettlesExactlyOnce ==
  /\ [](\A k \in CallIds :
          /\ Cardinality(SettledFor(k)) <= 1
          /\ k \in client.pendingCalls => SettledFor(k) = {}
          /\ (k \in client.generated /\ k \notin client.pendingCalls) =>
               Cardinality(SettledFor(k)) = 1)
  /\ [][\A k \in CallIds :
          /\ (CallTimer(k) /\ k \in client.pendingCalls) =>
               /\ client'.settled =
                    Append(client.settled,
                           Settled(k, "rejected", <<>>, "Call timeout"))
               /\ k \notin client'.pendingCalls
          /\ (CallTimer(k) /\ k \notin client.pendingCalls) =>
               client'.settled = client.settled
          /\ \A id \in 1..MaxSockets, message \in CallMessages :
               (SocketMessage(id, message) /\ message.callId = k) =>
                 IF k \in client.pendingCalls
                   THEN /\ k \notin client'.pendingCalls
                        /\ client'.settled =
                             Append(client.settled,
                                    IF message.type = "result"
                                      THEN Settled(k, "resolved", message.data, "")
                                      ELSE Settled(k, "rejected", <<>>,
                                                   message.message))
                   ELSE client' = Ignored(message)]_vars

\* C12 happens: the call was rejected by its timeout and a result for its
\* callId arrives afterwards
C12_Witness ==
  /\ client.settled = <<Settled("k1", "rejected", <<>>, "Call timeout")>>
  /\ client.pendingCalls = {}
  /\ client.events =
       <<Event("message", "", ServerMessage("result", "", "k1", <<>>, <<>>, ""))>>

\* the subscribe message of a subscription
SubscribeMessage(state) ==
  ClientMessage("subscribe", state.id, "", state.path, state.input)

\* how often a message is in a list of messages
Count(messages, message) ==
  Cardinality({i \in DOMAIN messages : messages[i] = message})

\* the messages handed to the socket by the last step
Transmitted(m) ==
  LET sent == SelectSeq(m.events, LAMBDA e : e.kind = "transmit")
  IN  [i \in DOMAIN sent |-> sent[i].message]

\* when the socket opens, every subscription that did not opt out is sent
\* again with its id, path and input and is loading; the others are not
ResubscribedOnOpen ==
  \A id \in 1..MaxSockets :
    SocketOpen(id) =>
      /\ Len(client'.subscriptions) = Len(client.subscriptions)
      /\ \A i \in DOMAIN client.subscriptions :
           LET state == client.subscriptions[i]
               queued == Count(client.messageQueue, SubscribeMessage(state))
           IN  IF state.resubscribeOnReconnect
                 THEN /\ Count(Transmitted(client'), SubscribeMessage(state)) =
                           queued + 1
                      /\ client'.subscriptions[i] = [state EXCEPT !.loading = TRUE]
                 ELSE /\ Count(Transmitted(client'), SubscribeMessage(state)) =
                           queued
                      /\ client'.subscriptions[i] = state

\* a snapshot or a patch that is applied ends the loading of its subscription
LoadingEndsWithUpdate ==
  \A id \in 1..MaxSockets, message \in UpdateMessages :
    LET i == Find(client, message.subscriptionId) IN
    (/\ SocketMessage(id, message)
     /\ i # 0
     /\ message.type = "patch" => client.subscriptions[i].data # <<>>) =>
      ~client'.subscriptions[i].loading

\* C13: each time the transport becomes connected the client sends a
\* subscribe with the original id, path and input for every subscription that
\* did not opt out and for none that did, and such a subscription is loading
\* from then until its next snapshot or patch, after which it is not.
C13_ResubscribedAndLoadingUntilUpdate ==
  [][ResubscribedOnOpen /\ LoadingEndsWithUpdate]_vars

\* the callbacks run by the message event of a patch that cannot be applied
PatchFailureEvents(message) ==
  <<Event("message", "", message),
    Event("listener", message.subscriptionId, NoMessage),
    Event("onError", message.subscriptionId, NoMessage)>>

\* C14: when a patch cannot be applied to the data of a subscription, the
\* error of that subscription is set and its data stays as it was, the data,
\* loading and error of every other subscription are unchanged, and messages
\* received afterwards are handled as usual: a snapshot replaces the data and
\* clears the error, a patch that applies updates the data.
C14_FailedPatchIsContained ==
  [][\A id \in 1..MaxSockets, message \in SubscriptionMessages :
       LET i == Find(client, message.subscriptionId) IN
       (SocketMessage(id, message) /\ i # 0) =>
         LET state == client.subscriptions[i]
             r == clientApplyPatches(state.data[1], message.patches)
         IN
         /\ (message.type = "patch" /\ state.data # <<>> /\ ~r.ok) =>
              client' = [client EXCEPT !.subscriptions[i].error = "patch failed",
                                       !.events = PatchFailureEvents(message)]
         /\ (message.type = "patch" /\ state.data # <<>> /\ r.ok) =>
              client'.subscriptions =
                [client.subscriptions EXCEPT ![i].data = <<r.doc>>]
         /\ message.type = "snapshot" =>
              client'.subscriptions =
                [client.subscriptions EXCEPT ![i].data = <<message.data>>,
                                             ![i].loading = FALSE,
                                             ![i].error = ""]]_vars

\* C14 happens: a patch failed on the first of two subscriptions that both
\* have data
C14_Witness ==
  /\ Len(client.subscriptions) = 2
  /\ client.subscriptions[1].error = "patch failed"
  /\ client.subscriptions[1].data = <<<<>>>>
  /\ client.subscriptions[2].data = <<<<Item(<<"1">>, L1)>>>>
  /\ client.subscriptions[2].error = ""
  /\ Len(client.events) = 3
  /\ client.events[3] = Event("onError", client.subscriptions[1].id, NoMessage)

\* the unsubscribe message of a subscription
UnsubscribeMessage(id) == ClientMessage("unsubscribe", id, "", "", Undefined)

\* a list without its entries for one subscription
Without(subscriptions, id) ==
  SelectSeq(subscriptions, LAMBDA state : state.id # id)

\* C15: unsubscribe() of a subscription handle removes the subscription from
\* the client at once and sends or queues one unsubscribe message; a
\* snapshot, patch or error received later for that subscriptionId changes
\* no state of the client and runs no callback or listener.
C15_UnsubscribedIsGoneAndIgnored ==
  [][\A s \in ClientSubscriptionIds :
       /\ (Unsubscribe(s) /\ Find(client, s) # 0) =>
            /\ client'.subscriptions = Without(client.subscriptions, s)
            /\ Find(client', s) = 0
            /\ \/ /\ client'.transmitted =
                       Append(client.transmitted, UnsubscribeMessage(s))
                  /\ client'.messageQueue = client.messageQueue
               \/ /\ client'.messageQueue =
                       Append(client.messageQueue, UnsubscribeMessage(s))
                  /\ client'.transmitted = client.transmitted
       /\ \A id \in 1..MaxSockets, message \in SubscriptionMessages :
            (/\ SocketMessage(id, message)
             /\ message.subscriptionId = s
             /\ s \in client.generated
             /\ Find(client, s) = 0) =>
              client' = Ignored(message)]_vars

\* C15 happens: a snapshot arrives for a subscription that was removed and
\* whose unsubscribe message went to the server
C15_Witness ==
  /\ "s1" \in client.generated
  /\ Find(client, "s1") = 0
  /\ Count(client.transmitted, UnsubscribeMessage("s1")) = 1
  /\ client.events =
       <<Event("message", "",
               ServerMessage("snapshot", "s1", "", <<Item(<<"1">>, L1)>>, <<>>, ""))>>

\* C16: when the channel opens the manager sets state to connected, resets
\* the reconnect-attempt counter to 0, transmits every queued message in the
\* order it was enqueued, leaving the queue empty, and then fires onConnect.
C16_OpenFlushesQueueInOrder ==
  [][\A id \in 1..MaxSockets :
       SocketOpen(id) =>
         /\ client'.state = "connected"
         /\ client'.reconnectAttempts = 0
         /\ Transmitted(client') = client.messageQueue
         /\ client'.transmitted = client.transmitted \o client.messageQueue
         /\ client'.messageQueue = <<>>
         /\ client'.events[Len(client'.events)] = Event("onConnect", "", NoMessage)]_vars

\* what every close event does before a reconnect is considered
CloseEvents(wasClean) ==
  <<CloseEvent(wasClean),
    Event("state", "disconnected", NoMessage),
    Event("onDisconnect", "", NoMessage)>>

\* the manager after a close event that schedules a reconnect, and after one
\* that does not
ClosedAndScheduled(wasClean) ==
  /\ client'.events =
       Append(CloseEvents(wasClean), Event("state", "reconnecting", NoMessage))
  /\ client'.state = "reconnecting"
  /\ client'.reconnectAttempts = client.reconnectAttempts + 1
  /\ client'.reconnectTimer \in client'.timers \ client.timers
  /\ client'.timers = client.timers \cup {client'.reconnectTimer}

ClosedNotScheduled(wasClean) ==
  /\ client'.events = CloseEvents(wasClean)
  /\ client'.state = "disconnected"
  /\ client'.reconnectAttempts = client.reconnectAttempts
  /\ client'.reconnectTimer = client.reconnectTimer
  /\ client'.timers = client.timers

\* C17 as stated: on every close event the manager sets state to
\* disconnected and fires onDisconnect, and it schedules a reconnect if and
\* only if autoReconnect is enabled and the close was not clean.
C17_ReconnectIffAutoAndUnclean ==
  [][\A id \in 1..MaxSockets, wasClean \in BOOLEAN :
       SocketClose(id, wasClean) =>
         IF client.autoReconnect /\ ~wasClean
           THEN ClosedAndScheduled(wasClean)
           ELSE ClosedNotScheduled(wasClean)]_vars

\* C17 amended: on every close event the manager sets state to disconnected
\* and fires onDisconnect, and it schedules a reconnect (state reconnecting,
\* one more attempt counted, one new timer) if and only if autoReconnect is
\* enabled, the close event was not clean and fewer than maxReconnectAttempts
\* attempts have been counted since the last open.
C17_ReconnectIffAutoUncleanAndBudget ==
  [][\A id \in 1..MaxSockets, wasClean \in BOOLEAN :
       SocketClose(id, wasClean) =>
         IF /\ client.autoReconnect
            /\ ~wasClean
            /\ client.reconnectAttempts < client.maxReconnectAttempts
           THEN ClosedAndScheduled(wasClean)
           ELSE ClosedNotScheduled(wasClean)]_vars

\* C17 happens: an unclean close with autoReconnect enabled and the budget
\* used up schedules nothing
C17_Witness ==
  /\ client.autoReconnect
  /\ client.reconnectAttempts = client.maxReconnectAttempts
  /\ client.events = CloseEvents(FALSE)
  /\ client.state = "disconnected"
  /\ client.timers = {}

\* every reconnect of the budget was scheduled and made, and none succeeded:
\* no timer is pending, no connect() is in progress, no socket is left
GaveUp ==
  /\ client.reconnectAttempts = client.maxReconnectAttempts
  /\ client.state = "disconnected"
  /\ client.timers = {}
  /\ client.connects = 0
  /\ client.sockets = <<>>

\* C18: the reconnect-attempt counter never exceeds maxReconnectAttempts; when
\* it has reached maxReconnectAttempts no step schedules another attempt; and
\* once those attempts have been made without an open, the state stays
\* disconnected, with no timer and no socket, until connect() is called.
C18_RetryBudgetIsFinal ==
  /\ [](client.reconnectAttempts <= client.maxReconnectAttempts)
  /\ [][/\ client.reconnectAttempts = client.maxReconnectAttempts =>
             client'.timers \subseteq client.timers
        /\ (GaveUp /\ ~Connect) =>
             /\ client'.state = "disconnected"
             /\ client'.timers = {}
             /\ client'.sockets = <<>>
             /\ client'.reconnectAttempts = client.maxReconnectAttempts]_vars

\* C18 happens: the last attempt of the budget ended with an unclean close
\* and the manager has given up
C18_Witness ==
  /\ GaveUp
  /\ client.autoReconnect
  /\ client.opened = MaxSockets
  /\ Len(client.events) = 3
  /\ client.events[1] = CloseEvent(FALSE)

\* C19: after disconnect() returns no reconnect timer is pending, and the
\* manager does not enter the connecting or connected state again unless
\* connect() is called after that disconnect(), whatever it was doing when
\* disconnect() was called.
C19_DisconnectIsFinal ==
  client.stopped =>
    /\ client.timers = {}
    /\ client.state \notin {"connecting", "connected"}

\* the messages of the application the manager holds or has handed to a
\* socket, in a given state of the client
Kept(m) == m.transmitted \o m.messageQueue

\* C20: send(message) hands the message to the socket at once if and only if
\* the state is connected and the socket of the manager is open, and appends
\* it to the queue otherwise; and no message is ever dropped: a step never
\* removes a message from what was transmitted, and every message that
\* leaves the queue has been transmitted or is queued again.
C20_SendTransmitsOrQueues ==
  [][/\ \A message \in AppMessages :
          Send(message) =>
            IF client.state = "connected" /\ IsOpen(client, client.ws)
              THEN /\ client'.transmitted = Append(client.transmitted, message)
                   /\ client'.messageQueue = client.messageQueue
              ELSE /\ client'.messageQueue = Append(client.messageQueue, message)
                   /\ client'.transmitted = client.transmitted
     /\ Len(client'.transmitted) >= Len(client.transmitted)
     /\ SubSeq(client'.transmitted, 1, Len(client.transmitted)) = client.transmitted
     /\ \A message \in AppMessages :
          Count(Kept(client'), message) >= Count(Kept(client), message)]_vars

\* C20 happens: two messages queued while not connected were handed to the
\* socket, in their order, when it opened
C20_Witness ==
  /\ client.state = "connected"
  /\ client.messageQueue = <<>>
  /\ Len(client.transmitted) = 2
  /\ Transmitted(client) = client.transmitted
  /\ client.transmitted[1] # client.transmitted[2]
  /\ client.events[Len(client.events)] = Event("onConnect", "", NoMessage)

\* ==================================================== the library on its own
\* The exported functions of the dependency extractor, the filter evaluator
\* and the patch engine are called on arguments drawn from bounded sets; the
\* engine's tables stay as they are at the start.
Quiet ==
  /\ connections = <<>>
  /\ queries = <<>>
  /\ dependencies = <<>>
  /\ pending = <<>>
  /\ now = 0
  /\ response = NoResponse
  /\ batch = NoBatch
  /\ unsubscribed = {}
  /\ used = [subscribe |-> 0, unsubscribe |-> 0, batch |-> 0]
  /\ client = ReactiveClient(TRUE)
  /\ tasks = NoTasks

Idle == Quiet /\ store = [i \in ItemIds |-> L1]

Arguments(input) == [fn |-> "", input |-> input, output |-> <<>>]

\* one call of fn on the arguments chosen at the start
Apply(fn, output) ==
  /\ applied.fn = ""
  /\ applied' = [fn |-> fn, input |-> applied.input, output |-> output]
  /\ UNCHANGED <<serverVars, client, tasks>>

\* ------------------------------------------------ filter trees of the builder
MaxDepth == 2

EqValues == {L1, <<>>, Number(7), undefined}
Prefixes == {<<"L">>, <<>>}

IndexedLeaves ==
  {eq("taskListId", v) : v \in EqValues} \cup
  {beginsWith("taskListId", p) : p \in Prefixes}

OtherLeaves ==
  {ne("taskListId", L1), gt("taskListId", L1), gte("taskListId", L1),
   lt("taskListId", L1), lte("taskListId", L1), between("taskListId", L1, L2),
   contains("taskListId", <<"L">>)}

Leaves == IndexedLeaves \cup OtherLeaves

RECURSIVE FilterTrees(_)
FilterTrees(depth) ==
  IF depth = 0 THEN Leaves
  ELSE LET below == FilterTrees(depth - 1)
       IN  below \cup {not(c) : c \in below} \cup
           {and(<<c, d>>) : c \in below, d \in Leaves} \cup
           {or(<<c, d>>) : c \in below, d \in Leaves}

IndexNames == {undefined, <<"g", "s", "i">>}

Operations ==
  {[tableName |-> TodoTable, filters |-> <<c>>, indexName |-> indexName,
    sortOrder |-> "asc"] :
     c \in FilterTrees(MaxDepth), indexName \in IndexNames}

InitExtract == Idle /\ applied \in {Arguments(o) : o \in Operations}

ExtractDependencies ==
  Apply("extractDependencies", extractDependencies(applied.input))

NextExtract == ExtractDependencies

SpecExtract == InitExtract /\ [][NextExtract]_vars

\* ------------------------------------------------------------- properties
\* the comparison and function nodes of a tree, in the order of the descent
RECURSIVE Nodes(_)
Nodes(condition) ==
  IF condition.type = "logical"
    THEN Concat([i \in DOMAIN condition.conditions |->
                   Nodes(condition.conditions[i])])
    ELSE <<condition>>

IsEq(node) == node.type = "comparison" /\ node.operator = "="

IsBeginsWith(node) == node.type = "function" /\ node.operator = "begins_with"

\* the dependency of an eq or beginsWith node
DependencyOf(operation, node) ==
  [tableName |-> operation.tableName,
   fieldName |-> FieldChars(node.field),
   fieldValue |-> IF IsEq(node) THEN String(node.value)
                  ELSE PrefixTag \o String(node.value),
   indexName |-> operation.indexName]

\* one dependency for every node of the operation that `indexed` accepts
DependenciesOf(operation, indexed(_)) ==
  LET nodes == Concat([i \in DOMAIN operation.filters |->
                         Nodes(operation.filters[i])])
  IN  Concat([i \in DOMAIN nodes |->
                IF indexed(nodes[i]) THEN <<DependencyOf(operation, nodes[i])>>
                ELSE <<>>])

\* C21 as stated: extractDependencies returns exactly one dependency for
\* every eq node and one (tagged prefix:) for every beginsWith node of the
\* tree, found by descent through all logical nodes; ne, gt, gte, lt, lte,
\* between and contains nodes yield none.
C21_OnePerEqAndBeginsWith ==
  applied.fn = "extractDependencies" =>
    applied.output =
      DependenciesOf(applied.input, LAMBDA n : IsEq(n) \/ IsBeginsWith(n))

\* C21 amended: extractDependencies returns exactly one dependency for every
\* eq node whose value is not undefined and one (tagged prefix:) for every
\* beginsWith node whose prefix is not empty, found by descent through all
\* logical nodes; every other node yields none.
C21_OnePerEqAndNonEmptyBeginsWith ==
  applied.fn = "extractDependencies" =>
    applied.output =
      DependenciesOf(applied.input,
                     LAMBDA n : \/ IsEq(n) /\ n.value # undefined
                                \/ IsBeginsWith(n) /\ n.value # <<>>)

C21_Witness ==
  /\ applied.fn = "extractDependencies"
  /\ applied.input.filters =
       <<and(<<not(eq("taskListId", L1)), beginsWith("taskListId", <<"L">>)>>)>>
  /\ Len(applied.output) = 2

\* ------------------------------------------------- dependency keys, alone
MaxLen == 2

RECURSIVE Strings(_, _)
Strings(alphabet, length) ==
  IF length = 0 THEN {<<>>}
  ELSE LET shorter == Strings(alphabet, length - 1)
       IN  shorter \cup {<<c>> \o s : c \in alphabet, s \in shorter}

QueryDependencies ==
  [tableName : {TodoTable},
   fieldName : Strings({"f", "#"}, MaxLen) \ {<<>>},
   fieldValue : Strings({"a", "#"}, MaxLen),
   indexName : IndexNames]

InitKeys == Idle /\ applied \in {Arguments(d) : d \in QueryDependencies}

CreateDependencyKey ==
  Apply("createDependencyKey", createDependencyKey(applied.input))

\* the key that createDependencyKey returned is parsed
ParseDependencyKey ==
  /\ applied.fn = "createDependencyKey"
  /\ applied' = [applied EXCEPT !.fn = "parseDependencyKey",
                                !.output = parseDependencyKey(applied.output)]
  /\ UNCHANGED <<serverVars, client, tasks>>

NextKeys == CreateDependencyKey \/ ParseDependencyKey

SpecKeys == InitKeys /\ [][NextKeys]_vars

\* ------------------------------------------------------------- properties
\* C22 as stated: parseDependencyKey(createDependencyKey(d)) equals d for
\* every QueryDependency d, also when its value contains '#'.
C22_KeyRoundTrip ==
  applied.fn = "parseDependencyKey" => applied.output = applied.input

HasHash(s) == \E i \in DOMAIN s : s[i] = "#"

\* C22 amended: for every QueryDependency d whose table name and field name
\* hold no '#', parseDependencyKey(createDependencyKey(d)) has the table name,
\* field name and value of d, also when the value contains '#', and no index
\* name; so it equals d exactly when d has no index name.
C22_KeyRoundTripWithoutIndexName ==
  (/\ applied.fn = "parseDependencyKey"
   /\ ~HasHash(applied.input.tableName)
   /\ ~HasHash(applied.input.fieldName)) =>
    /\ applied.output = [applied.input EXCEPT !.indexName = undefined]
    /\ applied.output = applied.input <=> applied.input.indexName = undefined

C22_Witness ==
  /\ applied.fn = "parseDependencyKey"
  /\ applied.input.fieldName = <<"f">>
  /\ applied.input.fieldValue = <<"a", "#">>
  /\ applied.input.indexName = undefined
  /\ applied.output = applied.input

\* --------------------------------------------------- affected keys, alone
TableNames == {TodoTable, <<"T">>}

FieldValues ==
  Strings({"a", "#"}, MaxLen) \cup {null, undefined, Number(7)}

Images == [id : FieldValues, taskListId : FieldValues]

InitAffected ==
  Idle /\ applied \in {Arguments([tableName |-> t, item |-> item]) :
                         t \in TableNames, item \in Images}

ExtractAffectedKeys ==
  Apply("extractAffectedKeys",
        extractAffectedKeys(applied.input.tableName, applied.input.item))

NextAffected == ExtractAffectedKeys

SpecAffected == InitAffected /\ [][NextAffected]_vars

\* ------------------------------------------------------------- properties
Fields == Range(FieldNames)

KeyOf(tableName, F, v) == tableName \o Hash \o FieldChars(F) \o Hash \o v

ExactKeys(tableName, item) ==
  {KeyOf(tableName, F, String(item[F])) : F \in {G \in Fields : ~IsNullish(item[G])}}

PrefixKeys(tableName, item) ==
  UNION {{KeyOf(tableName, F, PrefixTag \o SubSeq(item[F], 1, i)) :
            i \in 1..Len(item[F])} :
         F \in {G \in Fields : IsString(item[G])}}

RECURSIVE Sum(_)
Sum(ns) == IF ns = <<>> THEN 0 ELSE Head(ns) + Sum(Tail(ns))

\* C23: for every table name and item, extractAffectedKeys returns for each
\* field whose value v is neither null nor undefined the exact key
\* table#F#v and, when v is a string of length L, exactly the L prefix keys
\* table#F#prefix:v[0..i] for i = 1..L; nothing for null or undefined fields
\* and no other key.
C23_ExactAndPrefixKeys ==
  applied.fn = "extractAffectedKeys" =>
    LET tableName == applied.input.tableName
        item == applied.input.item
    IN  /\ Range(applied.output) =
             ExactKeys(tableName, item) \cup PrefixKeys(tableName, item)
        /\ Len(applied.output) =
             Sum([i \in DOMAIN FieldNames |->
                    LET v == item[FieldNames[i]]
                    IN  IF IsNullish(v) THEN 0
                        ELSE IF IsString(v) THEN 1 + Len(v) ELSE 1])

C23_Witness ==
  /\ applied.fn = "extractAffectedKeys"
  /\ applied.input.item = [id |-> null, taskListId |-> <<"a", "#">>]
  /\ Len(applied.output) = 3

\* ------------------------------------- subscriptions with several queries
TrackerPaths == {"todos.list", "todos.listWithFirst"}
TrackerInputs == {JStr(L1), JStr(L2)}

NextTracker ==
  \/ \E c \in Conns, s \in SubIds, path \in TrackerPaths, input \in TrackerInputs :
       handleSubscribe(c, s, path, input)
  \/ \E c \in Conns, s \in SubIds : handleUnsubscribe(c, s)

SpecTracker == Init /\ [][NextTracker]_vars

\* ------------------------------------------------------------- properties
\* C24: when the procedure of a subscribe runs several query operations, the
\* persisted queryMetadata, the dependency keys recorded on the Subscription
\* and the index entries written are those of the first tracked operation
\* only.
C24_FirstOperationOnlyIsPersisted ==
  [][\A c \in Conns, s \in SubIds, path \in TrackerPaths, input \in TrackerInputs :
       LET r == execute(path, store, input)
           firstKeys == getDependencyKeys(<<r.operations[1]>>)
       IN  (handleSubscribe(c, s, path, input) /\ r.ok) =>
             /\ queries'[<<c, s>>].queryMetadata =
                  operationToQueryMetadata(r.operations[1])
             /\ queries'[<<c, s>>].dependencies = firstKeys
             /\ \A entry \in DOMAIN dependencies' \ DOMAIN dependencies :
                  entry[1] \in Range(firstKeys)]_vars

\* ------------------------------------------- the two statement builders
\* The statement of a query is built from the tracked operation when the
\* procedure runs, and from the persisted metadata when a change arrives;
\* both are run on the same table contents.
InitStatements ==
  /\ Quiet
  /\ store \in InitialStores
  /\ applied \in {Arguments(o) : o \in {p \in Operations : p.indexName = undefined}}

BuildSelectStatement ==
  Apply("buildSelectStatement", <<executeQuery(applied.input, store)>>)

\* the metadata of the operation as handleSubscribe persists it, re-queried
BuildWhereClause ==
  /\ applied.fn = "buildSelectStatement"
  /\ applied' =
       [applied EXCEPT
          !.fn = "buildWhereClause",
          !.output = @ \o <<executeQueryFromMetadata(
                              operationToQueryMetadata(applied.input), FALSE)>>]
  /\ UNCHANGED <<serverVars, client, tasks>>

NextStatements == BuildSelectStatement \/ BuildWhereClause

SpecStatements == InitStatements /\ [][NextStatements]_vars

\* ------------------------------------------------------------- properties
\* C25: for every filter the builder can produce, the statement built at
\* subscribe time and the statement rebuilt from the normalized persisted
\* metadata select the same records from the same table contents.
C25_BothStatementsSelectTheSame ==
  applied.fn = "buildWhereClause" =>
    /\ applied.output[1].ok
    /\ applied.output[1].items = applied.output[2]

\* ----------------------------------------------------- the evaluator, alone
\* persisted filter lists: what normalizeFilter makes of the builder's trees,
\* and lists with a node whose type or operator the evaluator does not know
RangeBounds == {<<"L", "1">>, <<"L", "2">>, <<"L", "3">>}

RangeFilters ==
  {between("taskListId", lo, hi) : lo \in RangeBounds, hi \in RangeBounds} \cup
  {between("taskListId", Number(lo), Number(hi)) : lo \in 1..3, hi \in 1..3}

Malformed ==
  {createCondition("regex", "eq", "taskListId", L1, undefined),
   createCondition("comparison", "=", "taskListId", L1, undefined),
   createCondition("comparison", "like", "taskListId", L1, undefined),
   createCondition("function", "begins_with", "taskListId", L1, undefined),
   createCondition("function", "matches", "taskListId", L1, undefined),
   Logical("AND", <<normalizeFilter(eq("taskListId", L1))>>),
   Logical("xor", <<normalizeFilter(eq("taskListId", L1))>>)}

PersistedFilters ==
  {<<normalizeFilter(c)>> : c \in FilterTrees(1) \cup RangeFilters} \cup
  {<<m>> : m \in Malformed} \cup
  {<<normalizeFilter(eq("taskListId", L1)), m>> : m \in Malformed} \cup
  {<<m, normalizeFilter(ne("taskListId", L2))>> : m \in Malformed}

Records ==
  [id : {<<"1">>},
   taskListId : RangeBounds \cup {<<"L">>, <<"L", "4">>, undefined}
                \cup {Number(n) : n \in 0..4}]

InitEvaluate ==
  Idle /\ applied \in {Arguments([filters |-> f, record |-> r]) :
                         f \in PersistedFilters, r \in Records}

EvaluateFilters ==
  Apply("evaluateFilters",
        evaluateFilters(applied.input.filters, applied.input.record))

NextEvaluate == EvaluateFilters

SpecEvaluate == InitEvaluate /\ [][NextEvaluate]_vars

\* ------------------------------------------------------------- properties
IsBetween(filters) ==
  /\ Len(filters) = 1
  /\ filters[1].type = "function"
  /\ filters[1].operator = "between"

\* lo <= v <= hi for two values of the same type, in the order of the
\* evaluator
Within(v, lo, hi) ==
  IF IsNumber(v) /\ IsNumber(lo) /\ IsNumber(hi)
    THEN NumberValue(lo) <= NumberValue(v) /\ NumberValue(v) <= NumberValue(hi)
  ELSE IF IsString(v) /\ IsString(lo) /\ IsString(hi)
    THEN localeCompare(lo, v) <= 0 /\ localeCompare(v, hi) <= 0
  ELSE FALSE

SameTypes(v, lo, hi) ==
  \/ IsNumber(v) /\ IsNumber(lo) /\ IsNumber(hi)
  \/ IsString(v) /\ IsString(lo) /\ IsString(hi)

\* C26: for a between(field, lo, hi) filter made by the builder and
\* normalized by operationToQueryMetadata, evaluateFilters is true for
\* exactly the records whose field value v satisfies lo <= v <= hi.
C26_BetweenIsInclusive ==
  (/\ applied.fn = "evaluateFilters"
   /\ IsBetween(applied.input.filters)
   /\ SameTypes(applied.input.record.taskListId,
                applied.input.filters[1].value,
                applied.input.filters[1].value2)) =>
    applied.output = Within(applied.input.record.taskListId,
                            applied.input.filters[1].value,
                            applied.input.filters[1].value2)

MaxDocLen == 2

Items == {Item(id, list) : id \in ItemIds, list \in TaskLists}

Documents == UNION {[1..n -> Items] : n \in 0..MaxDocLen}

\* structuredClone: a new object with the content of the value
structuredClone(value) == value

\* fast-json-patch applyPatch on the object `ref` of a heap: the operations
\* are applied to that object itself when mutateDocument is set, and to a
\* copy of it otherwise
applyPatch(heap, ref, operations, mutateDocument) ==
  LET r == applyPatches(heap[ref], operations)
  IN  [ok |-> r.ok, newDocument |-> r.doc,
       heap |-> IF mutateDocument /\ r.ok THEN [heap EXCEPT ![ref] = r.doc]
                ELSE heap]

\* applyPatches that hands the caller's document to applyPatch and lets it
\* work in place
applyPatchesInPlace(document, patches) ==
  LET r == applyPatch([document |-> document], "document", patches, TRUE)
  IN  [ok |-> r.ok, newDocument |-> r.newDocument,
       document |-> r.heap.document]

\* applyPatches of patcher.ts as a call: what it returns and what the
\* caller's document holds afterwards
applyPatchesCall(document, patches) ==
  LET heap == [document |-> document, clone |-> structuredClone(document)]
      r == applyPatch(heap, "clone", patches, FALSE)
  IN  [ok |-> r.ok, newDocument |-> r.newDocument,
       document |-> r.heap.document]

InitPatches ==
  Idle /\ applied \in {Arguments([a |-> a, b |-> b, document |-> a]) :
                         a \in Documents, b \in Documents}

GeneratePatches ==
  Apply("generatePatches",
        [patches |-> generatePatches(applied.input.a, applied.input.b)])

\* the patches are applied to the document that held `a`, by the server's
\* patcher or by the client's
ApplyPatches(onClient) ==
  LET patches == applied.output.patches
      r == applyPatchesCall(applied.input.document, patches)
      returned == IF onClient
                    THEN clientApplyPatches(applied.input.document, patches)
                    ELSE [ok |-> r.ok, doc |-> r.newDocument]
  IN  /\ applied.fn = "generatePatches"
      /\ applied' = [fn |-> "applyPatches",
                     input |-> [applied.input EXCEPT !.document = r.document],
                     output |-> [patches |-> patches, ok |-> returned.ok,
                                 newDocument |-> returned.doc]]
      /\ UNCHANGED <<serverVars, client, tasks>>

NextPatches == GeneratePatches \/ \E onClient \in BOOLEAN : ApplyPatches(onClient)

SpecPatches == InitPatches /\ [][NextPatches]_vars

MaxInvocations == 2

Task(invocation, pair) ==
  [invocation |-> invocation, pair |-> pair, pc |-> "getQueryState",
   handler |-> "handler", queryState |-> <<>>, existing |-> <<>>,
   newResult |-> <<>>, patches |-> <<>>, sent |-> <<>>, wrote |-> 0]

\* the invocations of the stream handler under way (a request handler that
\* is under way has invocation 0)
Invoked == {tasks[k].invocation : k \in DOMAIN tasks} \ {0}

RECURSIVE SetToSeq(_)
SetToSeq(S) ==
  IF S = {} THEN <<>>
  ELSE LET x == CHOOSE y \in S : TRUE IN <<x>> \o SetToSeq(S \ {x})

\* affectedKeys.add(key), affectedSubscriptions.get(connId).add(subId)
add(seq, x) == IF x \in Range(seq) THEN seq ELSE Append(seq, x)

RECURSIVE addAll(_, _)
addAll(seq, xs) ==
  IF xs = <<>> THEN seq ELSE addAll(add(seq, Head(xs)), Tail(xs))

\* the Set of affected keys of one record
affectedKeys(record) ==
  addAll(addAll(<<>>, IF record.hasNew
                        THEN extractAffectedKeys(record.table, record.newImage)
                        ELSE <<>>),
         IF record.hasOld
           THEN extractAffectedKeys(record.table, record.oldImage) ELSE <<>>)

\* affectedSubscriptions that keeps a pair every time a key finds it
RECURSIVE collectEveryMatch(_, _)
collectEveryMatch(found, keys) ==
  IF keys = <<>> THEN found
  ELSE collectEveryMatch(found \o SetToSeq(findAffectedSubscriptions(Head(keys))),
                         Tail(keys))

\* the loop over the keys of the records: every pair that a key finds in the
\* index is added to the Map of Sets
RECURSIVE collect(_, _)
collect(found, keys) ==
  IF keys = <<>> THEN found
  ELSE collect(addAll(found, SetToSeq(findAffectedSubscriptions(Head(keys)))),
               Tail(keys))

affectedSubscriptions(records) ==
  collect(<<>>, Concat([i \in DOMAIN records |-> affectedKeys(records[i])]))

\* handler: the affected pairs of the batch are collected and a
\* processSubscription call is started for each of them
InvokeHandlerUpTo(maxInvocations) ==
  /\ pending # <<>>
  /\ Cardinality(Invoked) < maxInvocations
  /\ LET affected == affectedSubscriptions(pending)
     IN  tasks' = tasks \o [k \in DOMAIN affected |->
                              Task(Cardinality(Invoked) + 1, affected[k])]
  /\ pending' = <<>>
  /\ response' = NoResponse
  /\ batch' = NoBatch
  /\ UNCHANGED <<client, applied, connections, queries, dependencies, store,
                 now, unsubscribed, used>>

InvokeHandler == InvokeHandlerUpTo(MaxInvocations)

\* processSubscription up to the answer of getQueryState
GetQueryState(k) ==
  /\ k \in DOMAIN tasks
  /\ tasks[k].pc = "getQueryState"
  /\ tasks' = [tasks EXCEPT ![k] =
                 IF tasks[k].pair \in DOMAIN queries
                   THEN [@ EXCEPT !.pc = "executeQueryFromMetadata",
                                  !.queryState = <<queries[tasks[k].pair]>>]
                   ELSE [@ EXCEPT !.pc = "done"]]
  /\ response' = NoResponse
  /\ batch' = NoBatch
  /\ UNCHANGED <<client, applied, connections, queries, dependencies, store,
                 pending, now, unsubscribed, used>>

\* the re-query, hasChanges and generatePatches
ExecuteQueryFromMetadata(k) ==
  /\ k \in DOMAIN tasks
  /\ tasks[k].pc = "executeQueryFromMetadata"
  /\ LET queryState == tasks[k].queryState[1]
         newResult == executeQueryFromMetadata(queryState.queryMetadata, FALSE)
     IN  tasks' = [tasks EXCEPT ![k] =
                     IF ~hasChanges(queryState.lastResult, newResult)
                       THEN [@ EXCEPT !.pc = "done", !.newResult = newResult]
                       ELSE [@ EXCEPT
                               !.pc = "updateQueryState",
                               !.newResult = newResult,
                               !.patches = generatePatches(queryState.lastResult,
                                                           newResult)]]
  /\ response' = NoResponse
  /\ batch' = NoBatch
  /\ UNCHANGED <<client, applied, connections, queries, dependencies, store,
                 pending, now, unsubscribed, used>>

Writes == Cardinality({k \in DOMAIN tasks : tasks[k].wrote > 0})

\* updateQueryState that writes only if lastResult is still the one read
updateQueryStateGuarded(k) ==
  LET pair == tasks[k].pair IN
  IF pair \in DOMAIN queries
     /\ queries[pair].lastResult = tasks[k].queryState[1].lastResult
    THEN Put(queries, pair,
             [queries[pair] EXCEPT !.lastResult = tasks[k].newResult,
                                   !.updatedAt = now])
    ELSE queries

\* updateQueryState: the row is read again and put back with the new result
updateQueryState(k) ==
  LET pair == tasks[k].pair IN
  IF pair \in DOMAIN queries
    THEN Put(queries, pair,
             [queries[pair] EXCEPT !.lastResult = tasks[k].newResult,
                                   !.updatedAt = now])
    ELSE queries

UpdateQueryState(k) ==
  /\ k \in DOMAIN tasks
  /\ tasks[k].pc = "updateQueryState"
  /\ queries' = updateQueryState(k)
  /\ tasks' = [tasks EXCEPT ![k].pc = "sendPatch",
                            ![k].wrote = IF tasks[k].pair \in DOMAIN queries
                                           THEN Writes + 1 ELSE 0]
  /\ response' = NoResponse
  /\ batch' = NoBatch
  /\ UNCHANGED <<client, applied, connections, dependencies, store, pending,
                 now, unsubscribed, used>>

SendPatch(k) ==
  /\ k \in DOMAIN tasks
  /\ tasks[k].pc = "sendPatch"
  /\ tasks' = [tasks EXCEPT
                 ![k].pc = "done",
                 ![k].sent = <<PatchMessage(tasks[k].pair[2], tasks[k].patches)>>]
  /\ response' = NoResponse
  /\ batch' = NoBatch
  /\ UNCHANGED <<client, applied, connections, queries, dependencies, store,
                 pending, now, unsubscribed, used>>

MaxTasks == 4

NextRace ==
  \/ handleSubscribe("c1", "s1", "todos.list", JStr(L1))
  \/ \E id \in ItemIds, list \in TaskLists \cup {Absent} : WriteItem(id, list)
  \/ InvokeHandler
  \/ \E k \in 1..MaxTasks : GetQueryState(k)
  \/ \E k \in 1..MaxTasks : ExecuteQueryFromMetadata(k)
  \/ \E k \in 1..MaxTasks : UpdateQueryState(k)
  \/ \E k \in 1..MaxTasks : SendPatch(k)

SpecRace == Init /\ [][NextRace]_vars

\* ------------------------------------------------------------- properties
\* C29: nothing guards lastResult against a concurrent re-evaluation.  A
\* task stores its own result whatever the row holds by then, and pushes the
\* patch from the lastResult it read to its own result; so two tasks of the
\* same subscription can read the same lastResult, and the row ends with
\* what the later of them wrote.
C29_LaterWriterWins ==
  [][\A k \in 1..MaxTasks :
       /\ (UpdateQueryState(k) /\ tasks[k].pair \in DOMAIN queries) =>
            queries'[tasks[k].pair].lastResult = tasks[k].newResult
       /\ SendPatch(k) =>
            tasks'[k].sent =
              <<PatchMessage(tasks[k].pair[2],
                             generatePatches(tasks[k].queryState[1].lastResult,
                                             tasks[k].newResult))>>]_vars

\* two tasks of one subscription read the same lastResult, found different
\* results, both wrote and pushed, and the row holds the result of the later
\* writer, not that of the earlier one
C29_Witness ==
  \E j, k \in DOMAIN tasks :
    /\ tasks[j].pair = tasks[k].pair
    /\ tasks[j].invocation # tasks[k].invocation
    /\ tasks[j].pc = "done" /\ tasks[k].pc = "done"
    /\ tasks[j].queryState = tasks[k].queryState
    /\ tasks[j].newResult # tasks[k].newResult
    /\ tasks[j].sent # <<>> /\ tasks[k].sent # <<>>
    /\ 0 < tasks[j].wrote /\ tasks[j].wrote < tasks[k].wrote
    /\ tasks[k].pair \in DOMAIN queries
    /\ queries[tasks[k].pair].lastResult = tasks[k].newResult

\* ------------------------------------------- batches of several records
MaxRecords == 2

DedupPaths == {"todos.list", "todos.listWithFirst"}

NextDedup ==
  \/ \E c \in Conns, path \in DedupPaths : handleSubscribe(c, "s1", path, JStr(L1))
  \/ \E list \in TaskLists : WriteItemUpTo(<<"1">>, list, MaxRecords)
  \/ InvokeHandlerUpTo(1)
  \/ \E k \in 1..MaxTasks : GetQueryState(k)
  \/ \E k \in 1..MaxTasks : ExecuteQueryFromMetadata(k)
  \/ \E k \in 1..MaxTasks : UpdateQueryState(k)
  \/ \E k \in 1..MaxTasks : SendPatch(k)

SpecDedup == Init /\ [][NextDedup]_vars

\* ------------------------------------------------------------- properties
\* C30: within one change batch every (connectionId, subscriptionId) pair is
\* re-evaluated at most once and gets at most one patch message, however
\* many records and affected keys of the batch match it.
C30_OnceForEachPairOfABatch ==
  \A j, k \in DOMAIN tasks :
    /\ (j # k /\ tasks[j].invocation = tasks[k].invocation) =>
         tasks[j].pair # tasks[k].pair
    /\ Len(tasks[k].sent) <= 1

\* the keys that found the pair of task k when its batch was collected
\* cannot be read from the state; the witness is a batch of one invocation
\* whose only task pushed a patch for a pair that two index entries name
C30_Witness ==
  \E k \in DOMAIN tasks :
    /\ tasks[k].pc = "done"
    /\ Len(tasks[k].sent) = 1
    /\ Cardinality({d \in DOMAIN dependencies :
                      <<d[2], d[3]>> = tasks[k].pair}) >= 2
    /\ \A j \in DOMAIN tasks :
         tasks[j].invocation = tasks[k].invocation => j = k

\* ------------------------- the change processor beside the request handlers
\* The request handler and the stream handler are separate functions over the
\* same tables: a subscribe or unsubscribe request can be handled between two
\* awaits of a processSubscription call.

\* streamHandler of handlers/lambda-handlers.ts: the affected pairs of the
\* batch are collected and a processSubscription call is started for each
InvokeStreamHandler ==
  /\ pending # <<>>
  /\ Cardinality(Invoked) < 1
  /\ LET affected == affectedSubscriptions(pending)
     IN  tasks' = tasks \o [k \in DOMAIN affected |->
                              [Task(Cardinality(Invoked) + 1, affected[k])
                                 EXCEPT !.handler = "streamHandler"]]
  /\ pending' = <<>>
  /\ response' = NoResponse
  /\ batch' = NoBatch
  /\ UNCHANGED <<client, applied, connections, queries, dependencies, store,
                 now, unsubscribed, used>>

\* updateQueryState of handlers/stream-handler.ts up to the answer of its
\* getQueryState: without a row it returns
GetExisting(k) ==
  /\ k \in DOMAIN tasks
  /\ tasks[k].handler = "handler"
  /\ tasks[k].pc = "updateQueryState"
  /\ tasks' = [tasks EXCEPT ![k] =
                 IF tasks[k].pair \in DOMAIN queries
                   THEN [@ EXCEPT !.pc = "PutCommand",
                                  !.existing = <<queries[tasks[k].pair]>>]
                   ELSE [@ EXCEPT !.pc = "sendPatch"]]
  /\ response' = NoResponse
  /\ batch' = NoBatch
  /\ UNCHANGED <<client, applied, connections, queries, dependencies, store,
                 pending, now, unsubscribed, used>>

\* the PutCommand of updateQueryState: {...existing, lastResult, updatedAt}
PutCommand(k) ==
  /\ k \in DOMAIN tasks
  /\ tasks[k].pc = "PutCommand"
  /\ queries' = Put(queries, tasks[k].pair,
                    [tasks[k].existing[1] EXCEPT
                       !.lastResult = tasks[k].newResult, !.updatedAt = now])
  /\ tasks' = [tasks EXCEPT ![k].pc = "sendPatch", ![k].wrote = Writes + 1]
  /\ response' = NoResponse
  /\ batch' = NoBatch
  /\ UNCHANGED <<client, applied, connections, dependencies, store, pending,
                 now, unsubscribed, used>>

\* the PutCommand of processSubscription of handlers/lambda-handlers.ts:
\* {...queryState, lastResult, updatedAt}
PutCommandLambda(k) ==
  /\ k \in DOMAIN tasks
  /\ tasks[k].handler = "streamHandler"
  /\ tasks[k].pc = "updateQueryState"
  /\ queries' = Put(queries, tasks[k].pair,
                    [tasks[k].queryState[1] EXCEPT
                       !.lastResult = tasks[k].newResult, !.updatedAt = now])
  /\ tasks' = [tasks EXCEPT ![k].pc = "sendPatch", ![k].wrote = Writes + 1]
  /\ response' = NoResponse
  /\ batch' = NoBatch
  /\ UNCHANGED <<client, applied, connections, dependencies, store, pending,
                 now, unsubscribed, used>>

InterleavePaths == {"todos.list", "todos.byPrefix"}

NextInterleave ==
  \/ \E path \in InterleavePaths : handleSubscribe("c1", "s1", path, JStr(L1))
  \/ handleUnsubscribe("c1", "s1")
  \/ \E list \in TaskLists \cup {Absent} : WriteItem(<<"1">>, list)
  \/ InvokeHandlerUpTo(1)
  \/ InvokeStreamHandler
  \/ \E k \in 1..MaxTasks : GetQueryState(k)
  \/ \E k \in 1..MaxTasks : ExecuteQueryFromMetadata(k)
  \/ \E k \in 1..MaxTasks : GetExisting(k)
  \/ \E k \in 1..MaxTasks : PutCommand(k)
  \/ \E k \in 1..MaxTasks : PutCommandLambda(k)
  \/ \E k \in 1..MaxTasks : SendPatch(k)

SpecInterleave == Init /\ [][NextInterleave]_vars

\* ------------------------------------------------------------- properties
\* a write of the row of a pair by a change processor task
TaskPut(k) == PutCommand(k) \/ PutCommandLambda(k)

\* the row with another lastResult and updatedAt
Updated(row, lastResult, updatedAt) ==
  [row EXCEPT !.lastResult = lastResult, !.updatedAt = updatedAt]

\* C31: a change processor write of a Subscription row changes only the
\* lastResult and updatedAt of the row that is there (queryMetadata,
\* dependencies, createdAt and ttl stay, and so does every index entry), and
\* a step that is neither such a write nor a subscribe leaves lastResult and
\* updatedAt of every row that stays as they are.
C31_UpdateChangesOnlyResultAndTime ==
  [][/\ \A k \in 1..MaxTasks :
          TaskPut(k) =>
            /\ tasks[k].pair \in DOMAIN queries
            /\ queries' =
                 Put(queries, tasks[k].pair,
                     Updated(queries[tasks[k].pair], tasks[k].newResult, now))
            /\ dependencies' = dependencies
     /\ ((\A k \in 1..MaxTasks : ~TaskPut(k)) /\
         (\A path \in InterleavePaths :
            ~handleSubscribe("c1", "s1", path, JStr(L1)))) =>
          \A p \in DOMAIN queries \cap DOMAIN queries' :
            /\ queries'[p].lastResult = queries[p].lastResult
            /\ queries'[p].updatedAt = queries[p].updatedAt]_vars

\* ------------------------------------------------- the delay of a reconnect
\* scheduleReconnect computes the delay of its timer from the configured
\* reconnectDelay, the attempts counted and Math.random().  Math.random()
\* returns r / RandomSteps for some r in 0 .. RandomSteps - 1, so the jitter
\* factor 0.5 + Math.random() * 0.5 is (RandomSteps + r) / (2 * RandomSteps);
\* delays are kept in units of 1 / (2 * RandomSteps) ms.
RandomSteps == 4

\* attempts scheduled in a row without a successful open in between
MaxScheduled == 4

\* the cap of the delay before the jitter, in ms
maxDelay == 30000

DelayUnit == 2 * RandomSteps

RECURSIVE pow(_, _)
pow(base, exponent) ==
  IF exponent = 0 THEN 1 ELSE base * pow(base, exponent - 1)

min(a, b) == IF a < b THEN a ELSE b

\* a delay that keeps doubling
backoffUncapped(reconnectDelay, reconnectAttempts) ==
  reconnectDelay * pow(2, reconnectAttempts - 1)

\* Math.min(reconnectDelay * Math.pow(2, reconnectAttempts - 1), 30000)
backoff(reconnectDelay, reconnectAttempts) ==
  min(reconnectDelay * pow(2, reconnectAttempts - 1), maxDelay)

\* the delay handed to setTimeout, in units of 1 / DelayUnit ms
delay(reconnectDelay, reconnectAttempts, r) ==
  backoff(reconnectDelay, reconnectAttempts) * (RandomSteps + r)

ReconnectDelays == {0, 1000, 8000, 40000}

InitBackoff ==
  Idle /\ applied \in {Arguments([reconnectDelay |-> d]) : d \in ReconnectDelays}

\* scheduleReconnect once more, with the value r / RandomSteps of
\* Math.random(): the attempt is counted and the delay of its timer computed
ScheduleReconnect(r) ==
  /\ Len(applied.output) < MaxScheduled
  /\ LET reconnectAttempts == Len(applied.output) + 1
     IN  applied' =
           [fn |-> "scheduleReconnect", input |-> applied.input,
            output |-> Append(applied.output,
              [reconnectAttempts |-> reconnectAttempts, r |-> r,
               delay |-> delay(applied.input.reconnectDelay,
                               reconnectAttempts, r)])]
  /\ UNCHANGED <<serverVars, client, tasks>>

NextBackoff == \E r \in 0..(RandomSteps - 1) : ScheduleReconnect(r)

SpecBackoff == InitBackoff /\ [][NextBackoff]_vars

\* ------------------------------------------------------------- properties
\* min(reconnectDelay * 2^(n-1), 30000) by cases
PreJitter(n) ==
  IF applied.input.reconnectDelay * (2 ^ (n - 1)) <= 30000
    THEN applied.input.reconnectDelay * (2 ^ (n - 1))
    ELSE 30000

\* C32: the delay of attempt n is min(reconnectDelay * 2^(n-1), 30000) ms
\* times a factor between 0.5 and 1.0; so the delay before the jitter does
\* not decrease from one attempt to the next, and the delay is at most
\* 30000 ms and at least half the delay before the jitter.
C32_BackoffWithJitter ==
  \A n \in DOMAIN applied.output :
    LET d == applied.output[n].delay IN
    /\ applied.output[n].reconnectAttempts = n
    /\ \E factor \in RandomSteps..(2 * RandomSteps) : d = PreJitter(n) * factor
    /\ n > 1 => PreJitter(n - 1) <= PreJitter(n)
    /\ d <= 30000 * DelayUnit
    /\ 2 * d >= PreJitter(n) * DelayUnit

\* four attempts were scheduled, the later ones at the cap, with the
\* smallest and with the largest jitter
C32_Witness ==
  /\ Len(applied.output) = MaxScheduled
  /\ applied.input.reconnectDelay = 8000
  /\ applied.output[2].delay = 16000 * RandomSteps
  /\ applied.output[3].delay = 30000 * RandomSteps
  /\ applied.output[4].delay = 30000 * (2 * RandomSteps - 1)

\* ------------------------------------------- client: properties of sockets
\* C33: whenever the manager is in state connected it holds an open socket,
\* so that send() transmits; and while the manager holds a socket, the close
\* event of an earlier socket neither clears the manager's reference to its
\* socket nor changes the manager's state.
C33_ConnectedHoldsItsOpenSocket ==
  [][/\ client'.state = "connected" => IsOpen(client', client'.ws)
     /\ \A id \in 1..MaxSockets, wasClean \in BOOLEAN :
          (SocketClose(id, wasClean) /\ client.ws # 0 /\ id # client.ws) =>
            /\ client'.ws = client.ws
            /\ client'.state = client.state]_vars

\* C34: when the last request completed for a pair was an unsubscribe and
\* every processSubscription call for the pair has finished, there is no
\* Subscription row for the pair.
C34_NoRowAfterUnsubscribe ==
  \A p \in unsubscribed :
    (\A k \in DOMAIN tasks : tasks[k].pair = p => tasks[k].pc = "done") =>
      p \notin DOMAIN queries

\* ------------------------------------------- change processor: failing calls
\* C35: when the statement of the re-query fails for an affected
\* subscription, its Subscription row keeps its lastResult and no patch is
\* pushed for it.
C35_FailedRequeryChangesNothing ==
  [][BatchStep =>
       \A p \in batch'.affected \cap DOMAIN queries :
         batch'.fail[p] = "query" =>
           /\ queries'[p].lastResult = queries[p].lastResult
           /\ batch'.pushed[p] = <<>>]_vars

\* C36: when the delivery of a patch fails for another reason than a gone
\* connection, the lastResult of the Subscription row stays the one the
\* client has, so that a later re-evaluation finds the change again.
C36_FailedPushKeepsLastResult ==
  [][BatchStep =>
       \A p \in batch'.affected \cap DOMAIN queries :
         batch'.fail[p] = "push" =>
           /\ batch'.pushed[p] = <<>>
           /\ queries'[p].lastResult = queries[p].lastResult]_vars

\* ------------------------------------------- a subscribe request in steps
\* handleSubscribe awaits the router, then the PutCommand of the Subscription
\* row, then the PutCommands of the index entries; a write to the user table
\* and the stream handler can run between these steps.  The request under
\* way is kept like a task: queryState is the queryEntry it is going to
\* store, newResult the result the router returned, sent its response.

\* handleSubscribe up to the answer of router.execute
SubscribeExecute(connectionId, subscriptionId, path, input) ==
  LET r == execute(path, store, input) IN
  /\ used.subscribe < MaxSubscribes
  /\ \A k \in DOMAIN tasks :
       tasks[k].handler = "handleSubscribe" => tasks[k].pc = "done"
  /\ Len(tasks) < MaxTasks
  /\ used' = [used EXCEPT !.subscribe = @ + 1]
  /\ IF r.ok
       THEN /\ tasks' = Append(tasks,
                 [Task(0, <<connectionId, subscriptionId>>) EXCEPT
                    !.handler = "handleSubscribe",
                    !.pc = "PutQueryEntry",
                    !.queryState =
                      <<QueryEntry(connectionId, subscriptionId, r)>>,
                    !.newResult = r.result])
            /\ response' = NoResponse
       ELSE /\ tasks' = tasks
            /\ response' = Response("error", subscriptionId, r.message, <<>>, FALSE)
  /\ batch' = NoBatch
  /\ UNCHANGED <<client, applied, connections, queries, dependencies, store,
                 pending, now, unsubscribed>>

\* the PutCommand of the queryEntry
SubscribePutQueryEntry(k) ==
  /\ k \in DOMAIN tasks
  /\ tasks[k].pc = "PutQueryEntry"
  /\ queries' = Put(queries, tasks[k].pair, tasks[k].queryState[1])
  /\ tasks' = [tasks EXCEPT ![k].pc = "PutDependencyEntries"]
  /\ response' = NoResponse
  /\ batch' = NoBatch
  /\ UNCHANGED <<client, applied, connections, dependencies, store, pending,
                 now, unsubscribed, used>>

\* the PutCommands of the index entries and the snapshot response
SubscribePutDependencyEntries(k) ==
  /\ k \in DOMAIN tasks
  /\ tasks[k].pc = "PutDependencyEntries"
  /\ LET pair == tasks[k].pair
         dependencyKeys == tasks[k].queryState[1].dependencies
         snapshot == Response("snapshot", pair[2], "", tasks[k].newResult, FALSE)
     IN  /\ dependencies' =
               PutAll(dependencies,
                      [i \in DOMAIN dependencyKeys |->
                         <<dependencyKeys[i], pair[1], pair[2]>>],
                      [connectionId |-> pair[1], subscriptionId |-> pair[2],
                       ttl |-> tasks[k].queryState[1].ttl])
         /\ unsubscribed' = unsubscribed \ {pair}
         /\ response' = snapshot
         /\ tasks' = [tasks EXCEPT ![k].pc = "done", ![k].sent = <<snapshot>>]
  /\ batch' = NoBatch
  /\ UNCHANGED <<client, applied, connections, queries, store, pending, now,
                 used>>

NextSubscribeRace ==
  \/ SubscribeExecute("c1", "s1", "todos.list", JStr(L1))
  \/ \E k \in 1..MaxTasks : SubscribePutQueryEntry(k)
  \/ \E k \in 1..MaxTasks : SubscribePutDependencyEntries(k)
  \/ \E id \in ItemIds, list \in TaskLists \cup {Absent} : WriteItem(id, list)
  \/ InvokeHandlerUpTo(1)
  \/ \E k \in 1..MaxTasks : GetQueryState(k)
  \/ \E k \in 1..MaxTasks : ExecuteQueryFromMetadata(k)
  \/ \E k \in 1..MaxTasks : GetExisting(k)
  \/ \E k \in 1..MaxTasks : PutCommand(k)
  \/ \E k \in 1..MaxTasks : SendPatch(k)

SpecSubscribeRace == Init /\ [][NextSubscribeRace]_vars

\* ------------------------------------------------------------- properties
\* the patch messages pushed for a pair
Pushed(p) ==
  {k \in DOMAIN tasks :
     tasks[k].handler = "handler" /\ tasks[k].pair = p /\ tasks[k].sent # <<>>}

\* C37: once a subscribe request has returned its snapshot and the batch of
\* every change committed so far has been processed, a change that the
\* snapshot does not show has been pushed to the subscriber as a patch.
C37_ChangeDuringSubscribeIsNotLost ==
  \A k \in DOMAIN tasks :
    (/\ tasks[k].handler = "handleSubscribe"
     /\ \A j \in DOMAIN tasks : tasks[j].pc = "done"
     /\ pending = <<>>
     /\ tasks[k].pair \in DOMAIN queries
     /\ tasks[k].newResult # Requery(tasks[k].pair)) =>
      Pushed(tasks[k].pair) # {}

\* -------------------------------------- selection of a subscription by a change
\* The dependency keys that subscribe stores for a query and the affected
\* keys that the handler extracts from a change record, for filters built
\* from eq and beginsWith under and, or, not.
SelectLists == {L1, L2, <<"L">>, Number(7)}

SelectLeaves ==
  {eq("taskListId", v) : v \in {L1, Number(7)}} \cup
  {eq("id", <<"1">>)} \cup
  {beginsWith("taskListId", p) : p \in {<<"L">>, L1, <<>>}}

SelectFilters ==
  SelectLeaves \cup {not(c) : c \in SelectLeaves} \cup
  {and(<<c, d>>) : c, d \in SelectLeaves} \cup
  {or(<<c, d>>) : c, d \in SelectLeaves}

ChangeRecords ==
  {ChangeRecord(id, old, new) :
     id \in ItemIds, old \in SelectLists \cup {Absent},
     new \in SelectLists \cup {Absent}} \
  {ChangeRecord(id, Absent, Absent) : id \in ItemIds}

InitSelect ==
  Idle /\ applied \in {Arguments([operation |-> TrackedOperation(<<c>>),
                                  record |-> r]) :
                         c \in SelectFilters, r \in ChangeRecords}

\* subscribe stores the dependency keys of the operation
GetDependencyKeys ==
  Apply("getDependencyKeys",
        [dependencyKeys |-> getDependencyKeys(<<applied.input.operation>>),
         affectedKeys |-> <<>>])

\* the handler extracts the affected keys of the change record
HandlerAffectedKeys ==
  /\ applied.fn = "getDependencyKeys"
  /\ applied' = [applied EXCEPT !.fn = "handler",
                   !.output.affectedKeys = affectedKeys(applied.input.record)]
  /\ UNCHANGED <<serverVars, client, tasks>>

NextSelect == GetDependencyKeys \/ HandlerAffectedKeys

SpecSelect == InitSelect /\ [][NextSelect]_vars

\* ------------------------------------------------------------- properties
\* an image of the change record satisfies the stored filter of the query
Satisfies(operation, record) ==
  LET filters == operationToQueryMetadata(operation).filterConditions IN
  \/ record.hasOld /\ evaluateFilters(filters, record.oldImage)
  \/ record.hasNew /\ evaluateFilters(filters, record.newImage)

\* C38: for a filter built from eq and beginsWith under and/or/not, a change
\* record whose old or new image satisfies the filter has an affected key
\* among the dependency keys of the subscription.
C38_MatchingChangeSelectsSubscription ==
  (applied.fn = "handler" /\ Satisfies(applied.input.operation, applied.input.record)) =>
    Range(applied.output.dependencyKeys) \cap Range(applied.output.affectedKeys) # {}

\* ------------------------------------------------- claim C40: timed-out calls
\* the promise of the call was rejected by its timer
TimedOut(m, callId) ==
  \E j \in DOMAIN m.settled :
    /\ m.settled[j].callId = callId
    /\ m.settled[j].how = "rejected"
    /\ m.settled[j].message = "Call timeout"

\* C40: a call message whose promise has already been rejected by the call
\* timer is not handed to a socket afterwards; in particular a call that was
\* queued while the channel was not open and timed out before the next open
\* is not sent when the queue is flushed.
C40_TimedOutCallIsNeverSent ==
  [][\A i \in DOMAIN client'.transmitted :
       (i > Len(client.transmitted) /\ client'.transmitted[i].type = "call")
         => ~TimedOut(client, client'.transmitted[i].callId)]_vars

\* ------------------------------------- claim C39: the client follows the row
\* the connection of the modelled client
ClientConnection == "c1"

\* what the client subscribes to: a procedure that returns a list and one
\* that returns a single item
EndToEndPaths == {"todos.list", "todos.first"}

\* handleRequest with the subscribe request that the client transmitted as
\* its i-th message; the response reaches the client
ServeSubscribe(i) ==
  /\ i \in DOMAIN client.transmitted
  /\ client.transmitted[i].type = "subscribe"
  /\ \E id \in DOMAIN client.sockets : client.sockets[id] = "open"
  /\ Subscribed(ClientConnection, client.transmitted[i].subscriptionId,
                client.transmitted[i].path, client.transmitted[i].input)
  /\ client' = onmessage(Begin, Delivered(response'))

\* the messages a batch posted to a connection
RECURSIVE PostedTo(_, _, _)
PostedTo(connectionId, log, pairs) ==
  IF pairs = {} THEN <<>>
  ELSE LET p == CHOOSE q \in pairs : TRUE
       IN  (IF p[1] = connectionId THEN log.pushed[p] ELSE <<>>) \o
           PostedTo(connectionId, log, pairs \ {p})

\* the message events of the messages, in the order in which they were posted
RECURSIVE Receive(_, _)
Receive(m, messages) ==
  IF messages = <<>> THEN m
  ELSE Receive(onmessage(m, ServerMessage("patch", Head(messages).subscriptionId,
                                          "", <<>>, Head(messages).patches, "")),
               Tail(messages))

\* handler of handlers/stream-handler.ts on the pending change records, no
\* call failing; what it posts to the connection of the client reaches the
\* client before the next step
ServeBatch ==
  /\ \E id \in DOMAIN client.sockets : client.sockets[id] = "open"
  /\ Handled(NoFailure)
  /\ client' = Receive(Begin, PostedTo(ClientConnection, batch', batch'.affected))

NextEndToEnd ==
  \/ Connect
  \/ ConnectResume(FALSE)
  \/ \E id \in 1..MaxSockets : SocketOpen(id)
  \/ \E path \in EndToEndPaths : Subscribe("s1", path, JStr(L1), FALSE)
  \/ \E i \in 1..MaxMessages : ServeSubscribe(i)
  \/ \E id \in ItemIds, list \in TaskLists \cup {Absent} : WriteItem(id, list)
  \/ ServeBatch

SpecEndToEnd == Init /\ [][NextEndToEnd]_vars

\* the client's data is the value of a stored lastResult.  lastResult is
\* always an array, and a value that is not an array equals no array.
SameValue(state, lastResult) ==
  /\ state.path \notin SinglePaths
  /\ state.data[1] = lastResult

\* C39: when batches are processed one at a time and every message is
\* delivered in order, the data the client holds for a subscription equals
\* the lastResult of its Subscription row, after the snapshot and after each
\* patch, whether the procedure returns an array or a single value.
C39_ClientDataEqualsLastResult ==
  \A i \in DOMAIN client.subscriptions :
    LET state == client.subscriptions[i]
        p == <<ClientConnection, state.id>>
    IN  (Len(state.data) > 0 /\ p \in DOMAIN queries)
          => SameValue(state, queries[p].lastResult)

\* ------------------------------------------------------ the whole program
Next ==
  \/ NextReactive
  \/ NextFailures
  \/ NextCleanup
  \/ NextStream
  \/ NextManager
  \/ NextCalls
  \/ NextSubscriptions
  \/ NextResubscribe
  \/ NextExtract
  \/ NextKeys
  \/ NextAffected
  \/ NextTracker
  \/ NextStatements
  \/ NextEvaluate
  \/ NextPatches
  \/ NextRace
  \/ NextDedup
  \/ NextInterleave
  \/ NextBackoff
  \/ NextSubscribeRace
  \/ NextSelect
  \/ NextEndToEnd

Spec == Init /\ [][Next]_vars

====
